---------------------------- MODULE Spec2Model ----------------------------
(***************************************************************************)
(* A model of codegen-images/scripts/render_scene.js: the ray-traced test  *)
(* image generator makeTestImage (vector helpers, camera basis, the        *)
(* intersector v, the integrator z, tone mapping and the pixel loop).      *)
(*                                                                         *)
(* Numbers.  The program computes in IEEE doubles.  Here a real number x   *)
(* is the integer x * Scale, every product and quotient is truncated       *)
(* toward zero to that grid, and a comparison with a decimal literal is    *)
(* the exact comparison of the grid value with the literal.  Vectors are   *)
(* sequences <<x, y, z>>, so the program's e[0], e[1], e[2] are e[1],      *)
(* e[2], e[3] here.                                                        *)
(***************************************************************************)
EXTENDS Integers, Sequences, FiniteSets, TLC

\* ------------------------------------------------------------------ bounds
\* Grid steps per unit.
Scale == 100
\* Largest image width and height a call is made with.
MaxW == 2
MaxH == 2

\* -------------------------------------------------------------- arithmetic
Abs(p) == IF p < 0 THEN -p ELSE p
Min2(p, q) == IF p < q THEN p ELSE q
\* p / q truncated toward zero, q > 0.
Trunc(p, q) == IF p >= 0 THEN p \div q ELSE -((-p) \div q)
\* The decimal literal num/den on the grid (rounded down), and rounded up.
Dec(num, den) == (num * Scale) \div den
DecUp(num, den) == (num * Scale + den - 1) \div den
\* The same on a grid of `unit` steps to one.
DecAt(unit, num, den) == (num * unit) \div den
DecUpAt(unit, num, den) == (num * unit + den - 1) \div den
\* Product and quotient of two grid values.
Mul(p, q) == Trunc(p * q, Scale)
Quo(p, q) == IF q > 0 THEN Trunc(p * Scale, q) ELSE -Trunc(p * Scale, -q)

RECURSIVE SqrtSearch(_, _, _)
SqrtSearch(num, lo, hi) ==
    IF lo >= hi THEN lo
    ELSE LET mid == (lo + hi + 1) \div 2
         IN  IF mid * mid <= num THEN SqrtSearch(num, mid, hi)
                                 ELSE SqrtSearch(num, lo, mid - 1)
\* Largest integer whose square is at most num (num >= 0).
ISqrt(num) == SqrtSearch(num, 0, Min2(num, 46340))
\* Math.sqrt and Math.hypot on the grid.
Sqrt(p) == ISqrt(p * Scale)
Hypot(vec) == ISqrt(vec[1] * vec[1] + vec[2] * vec[2] + vec[3] * vec[3])

RECURSIVE Pow(_, _)
\* p ** ex for a whole exponent ex >= 1, by squaring.
Pow(p, ex) ==
    IF ex = 1 THEN p
    ELSE LET half == Pow(p, ex \div 2)
             sq == Mul(half, half)
         IN  IF ex % 2 = 0 THEN sq ELSE Mul(sq, p)

\* ------------------------------------------------------------ vector math
\* Math.abs, Math.max
A(p) == Abs(p)
U(p, q) == IF p > q THEN p ELSE q
\* m = e => max(0, min(1, e))
m(p) == U(0, Min2(Scale, p))
\* u: add, R: subtract, o: componentwise product, c: scale, b: dot product
u(p, q) == [i \in 1..3 |-> p[i] + q[i]]
R(p, q) == [i \in 1..3 |-> p[i] - q[i]]
o(p, q) == [i \in 1..3 |-> Mul(p[i], q[i])]
c(p, s) == [i \in 1..3 |-> Mul(p[i], s)]
b(p, q) == Mul(p[1], q[1]) + Mul(p[2], q[2]) + Mul(p[3], q[3])
\* g: normalize; a zero length is replaced by 1 (hypot(...e) || 1)
g(p) ==
    LET len == Hypot(p)
        den == IF len = 0 THEN Scale ELSE len
    IN  [i \in 1..3 |-> Trunc(p[i] * Scale, den)]
\* h: rotate the components, [e, t, l] -> [t, l, e]
h(p) == <<p[2], p[3], p[1]>>
\* d: reflect e about the normal t
d(p, q) == R(p, c(q, 2 * b(p, q)))
\* Mutant: the rotation of the result is left out.
xUnrotated(p, q) == R(o(p, h(q)), o(h(p), q))
\* x: cross product
x(p, q) == h(R(o(p, h(q)), o(h(p), q)))

\* The fixed sun direction.
V == g(<<-Scale, Scale, Dec(6, 10)>>)

\* j: sky colour of a direction
jBlend(s) ==
    <<m(Scale - Mul(2 * s, s)), m(Scale - 2 * s), m(Scale - Trunc(s, 2))>>
j(dir) == jBlend(m(Mul(Dec(5, 10), Scale - b(dir, V))))

\* ------------------------------------------------------------ intersector
\* The initial best distance, 1e9: larger than every distance on the grid.
TFar == 1000000000
\* The value 0 that v returns for a miss, and the test !Q on a result.
Miss == [obj |-> FALSE]
IsMiss(Q) == ~Q.obj

\* `let p, s, t = 1e9, k = -1, n = [0, 1, 0]`
vNone == [t |-> TFar, k |-> -1, p |-> << >>, n |-> <<0, Scale, 0>>, s |-> << >>]
\* Mutant: the distance is not tested.
vPlaneAtAny(org, dir, aa) ==
    [vNone EXCEPT !.t = aa, !.k = 0, !.p = u(org, c(dir, aa))]
\* `if (a > 1e-4) { t = a; k = 0; p = u(e, c(m, a)); }`
vPlaneAt(org, dir, aa) ==
    IF aa > Dec(1, 10000)
    THEN [vNone EXCEPT !.t = aa, !.k = 0, !.p = u(org, c(dir, aa))]
    ELSE vNone
\* The plane test of v: the state after `if (A(m[1]) > 1e-6) {...}`.
vPlane(org, dir) ==
    IF A(dir[2]) > Dec(1, 1000000)
    THEN vPlaneAt(org, dir, Quo(-org[2], dir[2]))
    ELSE vNone

\* `let l = M.sqrt(x), bb = -w - l; if (bb < 1e-4) bb = -w + l;`
vPickAt(unit, ww, ll) ==
    IF -ww - ll < DecUpAt(unit, 1, 10000) THEN -ww + ll ELSE -ww - ll
vPick(ww, ll) == vPickAt(Scale, ww, ll)
\* `if (x > 0) {...}`: the root {bb} a sphere offers, {} without one.
vDisc(ww, xx) == IF xx > 0 THEN {vPick(ww, Sqrt(xx))} ELSE {}
\* `w = b(q, m), x = w * w - (b(q, q) - r * r)`
vQuad(q, ww, rad) == vDisc(ww, Mul(ww, ww) - (b(q, q) - Mul(rad, rad)))
vRay(q, dir, rad) == vQuad(q, b(q, dir), rad)
vRoot(sph, org, dir) == vRay(R(org, <<sph[6], sph[7], sph[8]>>), dir, sph[1])

\* Mutant: the candidate is not compared with the best so far.
vAcceptAny(bb, best) == bb > Dec(1, 10000)
\* Mutant: the comparison with the best so far is not strict.
vAcceptEqual(bb, best) == bb > Dec(1, 10000) /\ bb <= best
\* `bb > 1e-4 && bb < t`
vAcceptAt(unit, bb, best) == bb > DecAt(unit, 1, 10000) /\ bb < best
vAccept(bb, best) == vAcceptAt(Scale, bb, best)

\* Mutant: the normal is left as it was initialised.
vHitNormalUp(bb, pp, sph) ==
    [t |-> bb, k |-> 1, p |-> pp,
     n |-> <<0, Scale, 0>>,
     s |-> [c |-> <<sph[2], sph[3], sph[4]>>, f |-> sph[5]]]
\* `t = bb; k = 1; p = u(e, c(m, bb)); n = g(R(p, B)); s = {...}`
vHit(bb, pp, sph) ==
    [t |-> bb, k |-> 1, p |-> pp,
     n |-> g(R(pp, <<sph[6], sph[7], sph[8]>>)),
     s |-> [c |-> <<sph[2], sph[3], sph[4]>>, f |-> sph[5]]]
vTake(st, sph, org, dir, bb) ==
    IF vAccept(bb, st.t) THEN vHit(bb, u(org, c(dir, bb)), sph) ELSE st
vOffer(st, sph, org, dir, root) ==
    IF root = {} THEN st
    ELSE vTake(st, sph, org, dir, CHOOSE cand \in root : TRUE)
\* One iteration of `for (let [r, ir, og, hb, dr, ...B] of S)`.
vSphere(st, sph, org, dir) == vOffer(st, sph, org, dir, vRoot(sph, org, dir))

RECURSIVE vLoop(_, _, _, _, _)
vLoop(st, scene, idx, org, dir) ==
    IF idx > Len(scene) THEN st
    ELSE vLoop(vSphere(st, scene[idx], org, dir), scene, idx + 1, org, dir)

\* v: nearest hit of the ray (org, dir) in the scene, or the miss value.
\* `return k < 0 ? 0 : { t, k, p, n, s }`
\* Mutant: the record is returned whether or not anything was hit.
vResultAlways(st) ==
    [obj |-> TRUE, t |-> st.t, k |-> st.k, p |-> st.p, n |-> st.n, s |-> st.s]
vResult(st) ==
    IF st.k < 0 THEN Miss
    ELSE [obj |-> TRUE, t |-> st.t, k |-> st.k, p |-> st.p, n |-> st.n, s |-> st.s]
v(scene, org, dir) == vResult(vLoop(vPlane(org, dir), scene, 1, org, dir))

\* ---------------------------------------------------------------- texture
\* A plane-texture predicate is the checker ([x, , z]) => (n*x & 1) ^ (n*z & 1)
\* of scale n, or a caller's predicate that throws.
Checker(scale) == [kind |-> "checker", scale |-> scale]
Throwing == [kind |-> "throws"]
\* `n * x & 1`: the low bit of the product converted to a 32-bit integer.
LowBit(scale, coord) == Abs(Trunc(scale * coord, Scale)) % 2
PValue(tex, Z) == (LowBit(tex.scale, Z[1]) + LowBit(tex.scale, Z[3])) % 2

\* ------------------------------------------------------------- integrator
\* The depth cap of the bounce loop: for (let _ = 0; _ < 3; _++).
MaxDepth == 3

\* Mutant: a shadow ray that hits nothing darkens like one that hits.
zOcclusionMissDark(sh) ==
    IF IsMiss(sh) THEN Dec(18, 100)
    ELSE IF sh.t < 20 * Scale THEN Dec(18, 100) ELSE Scale
\* `v(...)?.t < 20 ? 0.18 : 1`
zOcclusion(sh) ==
    IF IsMiss(sh) THEN Scale
    ELSE IF sh.t < 20 * Scale THEN Dec(18, 100) ELSE Scale
\* xx: the occlusion factor, from the shadow ray toward the sun.
zShadow(scene, Q) == zOcclusion(v(scene, u(Q.p, c(Q.n, Dec(1, 10000))), V))

\* yy: the specular highlight.
zGloss(xx, q, dir, kind) ==
    (IF xx # 0 THEN 1 ELSE 0)
      * Pow(U(0, b(q, g(R(V, dir)))), IF kind # 0 THEN 120 ELSE 70)
\* GG from the occlusion xx and highlight yy of a hit with local colour ii.
zSample(xx, yy, q, dir, kind, ii) ==
    u(c(ii, Mul(Mul(xx, Dec(1, 10) + Mul(Dec(9, 10), U(0, b(q, V)))),
                Dec(65, 100) + Mul(Dec(35, 100), q[2]))),
      c(<<Scale, Scale, Scale>>,
        Mul(yy, IF kind # 0 THEN Dec(55, 100) ELSE Dec(35, 100))
          + Mul(Dec(18, 100), Pow(U(0, Scale + b(dir, q)), 2))))
zLit(xx, Q, dir, ii) == zSample(xx, zGloss(xx, Q.n, dir, Q.k), Q.n, dir, Q.k, ii)
\* GG: the radiance sample of a hit with local colour ii.
zRadiance(scene, Q, dir, ii) == zLit(zShadow(scene, Q), Q, dir, ii)

\* Mutant: the plane's reflectivity lacks the constant 0.1.
zReflectNoFloor(Q, dir) ==
    IF Q.k = 0 THEN Mul(Dec(38, 100), m(Scale - A(dir[2])))
    ELSE Q.s.f
\* Mutant: the plane reflects more than it receives.
zReflectGain(Q, dir) ==
    IF Q.k = 0 THEN Scale + Mul(Dec(38, 100), m(Scale - A(dir[2])))
    ELSE Q.s.f
\* The local colour ii and reflectivity hh of a hit.
zColour(tex, Q) ==
    IF Q.k = 0
    THEN IF PValue(tex, Q.p) # 0
         THEN <<Dec(92, 100), Dec(94, 100), Dec(98, 100)>>
         ELSE <<Dec(48, 100), Dec(52, 100), Dec(58, 100)>>
    ELSE Q.s.c
zReflect(Q, dir) ==
    IF Q.k = 0 THEN Dec(1, 10) + Mul(Dec(38, 100), m(Scale - A(dir[2])))
    ELSE Q.s.f

\* Mutant: the throughput is not multiplied by the reflectivity.
zBounceKeepsThroughput(st, Q, hh, acc) ==
    IF hh < DecUp(1, 1000)
    THEN [st EXCEPT !.a = acc, !.exit = "break", !.Q = Q]
    ELSE [a |-> acc,
          r |-> st.r,
          e |-> u(Q.p, c(Q.n, Dec(1, 10000))),
          t |-> g(d(st.t, Q.n)),
          exit |-> "next",
          Q |-> Q]
\* Mutant: the loop has no `if (hh < 0.001) break`.
zBounceNoBreak(st, Q, hh, acc) ==
    [a |-> acc,
     r |-> c(st.r, hh),
     e |-> u(Q.p, c(Q.n, Dec(1, 10000))),
     t |-> g(d(st.t, Q.n)),
     exit |-> "next",
     Q |-> Q]
\* `a = u(a, o(r, GG)); if (hh < 0.001) break; r = c(r, hh);
\*  e = u(Z, c(q, 1e-4)); t = g(d(t, q))`
zBounce(st, Q, hh, acc) ==
    IF hh < DecUp(1, 1000)
    THEN [st EXCEPT !.a = acc, !.exit = "break", !.Q = Q]
    ELSE [a |-> acc,
          r |-> c(st.r, hh),
          e |-> u(Q.p, c(Q.n, Dec(1, 10000))),
          t |-> g(d(st.t, Q.n)),
          exit |-> "next",
          Q |-> Q]
\* Mutant: on a miss the sky is added without the throughput.
zOnSkyUnweighted(scene, tex, st, Q) ==
    IF IsMiss(Q)
    THEN [st EXCEPT !.a = u(st.a, j(st.t)), !.exit = "miss", !.Q = Q]
    ELSE IF Q.k = 0 /\ tex.kind = "throws"
    THEN [st EXCEPT !.exit = "throw", !.Q = Q]
    ELSE zBounce(st, Q, zReflect(Q, st.t),
                 u(st.a, o(st.r, zRadiance(scene, Q, st.t, zColour(tex, Q)))))
\* The iteration for the intersection result Q.
zOn(scene, tex, st, Q) ==
    IF IsMiss(Q)
    THEN [st EXCEPT !.a = u(st.a, o(st.r, j(st.t))), !.exit = "miss", !.Q = Q]
    ELSE IF Q.k = 0 /\ tex.kind = "throws"
    THEN [st EXCEPT !.exit = "throw", !.Q = Q]
    ELSE zBounce(st, Q, zReflect(Q, st.t),
                 u(st.a, o(st.r, zRadiance(scene, Q, st.t, zColour(tex, Q)))))
\* A value of S that is no array, a function or a plain object, is written
\* as a list holding the one word that names it; `for (... of S)` at line
\* 99 throws a TypeError on it.
NotIterable(word) == << <<word>> >>
Iterable(scene) == \A sph \in 1..Len(scene) : Len(scene[sph]) = 8
\* One iteration of the loop of z on the locals st = [a, r, e, t].  exit
\* says how the iteration ends: "miss" (return a + r*sky), "throw" (S is
\* not iterable, or the texture predicate threw), "break" (reflectivity below 0.001) or "next";
\* Q is the iteration's intersection result.
zStep(scene, tex, st) ==
    IF Iterable(scene) THEN zOn(scene, tex, st, v(scene, st.e, st.t))
    ELSE [st EXCEPT !.exit = "throw"]

\* ----------------------------------------------------------- tone mapping
RECURSIVE RootSearch(_, _, _)
RootSearch(p, lo, hi) ==
    IF lo >= hi THEN lo
    ELSE LET mid == (lo + hi + 1) \div 2
         IN  IF Pow(mid, 11) <= p THEN RootSearch(p, mid, hi)
                                  ELSE RootSearch(p, lo, mid - 1)
\* p ** (1 / 2.2) for p >= 0: the 11th root, to the 5th power.
PowGamma(p) == IF p = 0 THEN 0 ELSE Pow(RootSearch(p, 0, U(Scale, p)), 5)

\* (e / (1 + e)) ** (1 / 2.2); not a number for a base below zero.
GammaIsNaN(p) == p < 0 /\ p >= -Scale
Gamma(p) == IF GammaIsNaN(p) THEN 0 ELSE PowGamma(Quo(p, Scale + p))

\* Mutant: the contrast curve without its clamp m.
ContrastUnclamped(p, lum) ==
    Mul(Dec(16875, 10000), p) - Mul(Dec(4375, 10000), lum) - Dec(125, 1000)
\* m(1.6875 * t - 0.4375 * e - 0.125), e the luminance
Contrast(p, lum) ==
    m(Mul(Dec(16875, 10000), p) - Mul(Dec(4375, 10000), lum) - Dec(125, 1000))

\* k = m(1 - 0.85 * (pp * pp + ii * ii)), the vignette of pixel (row, col)
Fade(pp, ii) == m(Scale - Mul(Dec(85, 100), Mul(pp, pp) + Mul(ii, ii)))
Vignette(row, col, width, height) ==
    Fade(Quo(col * Scale + Dec(5, 10), width * Scale) - Dec(5, 10),
         Quo(row * Scale + Dec(5, 10), height * Scale) - Dec(5, 10))

\* The colour n of pixel (row, col) from the integrator's result: gamma,
\* contrast, vignette.  nan: some channel is not a number.
Punch(gam, lum) == [i \in 1..3 |-> Contrast(gam[i], lum)]
Luminance(gam) == b(gam, <<Dec(2126, 10000), Dec(7152, 10000), Dec(722, 10000)>>)
Graded(gam) == Punch(gam, Luminance(gam))
ToneMap(raw, row, col, width, height) ==
    [nan |-> \E i \in 1..3 : GammaIsNaN(raw[i]),
     n |-> c(Graded([i \in 1..3 |-> Gamma(raw[i])]),
             Vignette(row, col, width, height))]

\* The byte a Uint8ClampedArray stores for p * 255: not-a-number becomes 0,
\* other values are clamped to [0, 255] and rounded, halves to even.
RoundHalfEven(whole, rest) ==
    IF 2 * rest > Scale \/ (2 * rest = Scale /\ whole % 2 = 1)
    THEN whole + 1 ELSE whole
ToUint8Clamped(nan, p) ==
    IF nan \/ p <= 0 THEN 0
    ELSE IF p >= Scale THEN 255
    ELSE RoundHalfEven((p * 255) \div Scale, (p * 255) % Scale)

\* ------------------------------------------------------------- path codec
\* scripts/path-codec.js.  A string is the list of its character codes.
B == 94
CH0 == 33
ESC == 71
SMALL0 == 20
SMALL_MIN == -25
SMALL_MAX == 25
FP_HI0 == 72
FP_OFF == 1033
\* A number is held in steps of 10^-Places; the paths of the model have no
\* numeral with more than Places fraction digits.
Places == 3
RECURSIVE Ten(_)
Ten(ex) == IF ex <= 0 THEN 1 ELSE 10 * Ten(ex - 1)
Unit == Ten(Places)
encChar(val) == <<CH0 + val>>
\* "MmLlHhVvCcSsQqTtAaZz"
CMD == <<77, 109, 76, 108, 72, 104, 86, 118, 67, 99,
         83, 115, 81, 113, 84, 116, 65, 97, 90, 122>>
\* CMD.indexOf(t), from 0; -1 when absent
indexOf(ch) ==
    IF \E k \in 1..Len(CMD) : CMD[k] = ch
    THEN (CHOOSE k \in 1..Len(CMD) : CMD[k] = ch) - 1
    ELSE -1
\* The character classes of the regular expressions: \d, [A-Za-z], \s,
\* [-+], [eE], and [^A-Za-z0-9.+-].
IsDigit(ch) == ch \in 48..57
IsLetter(ch) == ch \in (65..90) \cup (97..122)
IsSpace(ch) == ch \in {9, 10, 11, 12, 13, 32}
IsSign(ch) == ch \in {43, 45}
IsOther(ch) == ch >= 0 /\ ~IsDigit(ch) /\ ~IsLetter(ch) /\ ch \notin {43, 45, 46}
\* The character at place i, -1 beyond the end.
CharAt(str, i) == IF i \in 1..Len(str) THEN str[i] ELSE -1
RECURSIVE DigitRun(_, _)
DigitRun(str, i) ==
    IF IsDigit(CharAt(str, i)) THEN 1 + DigitRun(str, i + 1) ELSE 0
RECURSIVE OtherRun(_, _)
OtherRun(str, i) ==
    IF IsOther(CharAt(str, i)) THEN 1 + OtherRun(str, i + 1) ELSE 0
Signed(str, i) == IF IsSign(CharAt(str, i)) THEN 1 ELSE 0
\* (?:\d+(?:\.\d*)?|\.\d+) at place i: the place after it, 0 for no match
MantissaEnd(str, i) ==
    IF DigitRun(str, i) > 0
    THEN IF CharAt(str, i + DigitRun(str, i)) = 46
         THEN i + DigitRun(str, i) + 1
                + DigitRun(str, i + DigitRun(str, i) + 1)
         ELSE i + DigitRun(str, i)
    ELSE IF CharAt(str, i) = 46 /\ DigitRun(str, i + 1) > 0
    THEN i + 1 + DigitRun(str, i + 1)
    ELSE 0
\* (?:[eE][-+]?\d+)? at place i: the place after it
ExponentEnd(str, i) ==
    IF CharAt(str, i) \in {69, 101}
         /\ DigitRun(str, i + 1 + Signed(str, i + 1)) > 0
    THEN i + 1 + Signed(str, i + 1)
           + DigitRun(str, i + 1 + Signed(str, i + 1))
    ELSE i
\* The number of TOK_RE at place i: the place after it, 0 for no match
NumberEnd(str, i) ==
    IF MantissaEnd(str, i + Signed(str, i)) = 0 THEN 0
    ELSE ExponentEnd(str, MantissaEnd(str, i + Signed(str, i)))
\* d.match(TOK_RE) from place i on: a letter, a number, or a run of other
\* characters; a character that starts none of them is skipped.
RECURSIVE TOK_RE(_, _)
TOK_RE(str, i) ==
    IF i > Len(str) THEN << >>
    ELSE IF IsLetter(str[i])
    THEN <<SubSeq(str, i, i)>> \o TOK_RE(str, i + 1)
    ELSE IF NumberEnd(str, i) > 0
    THEN <<SubSeq(str, i, NumberEnd(str, i) - 1)>>
           \o TOK_RE(str, NumberEnd(str, i))
    ELSE IF IsOther(str[i])
    THEN <<SubSeq(str, i, i + OtherRun(str, i) - 1)>>
           \o TOK_RE(str, i + OtherRun(str, i))
    ELSE TOK_RE(str, i + 1)
\* /^[-+]?(?:\d+(?:\.\d*)?|\.\d+)(?:[eE][-+]?\d+)?$/.test(t)
IsNumber(tok) == NumberEnd(tok, 1) = Len(tok) + 1

\* The digits of str from place i up to place til, read as a whole number.
RECURSIVE DigitsValue(_, _, _)
DigitsValue(str, i, til) ==
    IF til < i THEN 0
    ELSE 10 * DigitsValue(str, i, til - 1) + (CharAt(str, til) - 48)
\* Number(t) for a number token: [val, fits], val in steps of 10^-Places;
\* fits is FALSE for a value that has a digit beyond Places fraction digits
\* or more than MaxWhole whole digits, which is neither a small integer
\* nor a fixed-point number for either divisor.
MaxWhole == 8 - Places
RECURSIVE ZeroRun(_, _)
ZeroRun(str, i) == IF CharAt(str, i) = 48 THEN 1 + ZeroRun(str, i + 1) ELSE 0
Scaled(val, ex) ==
    IF val = 0 THEN [val |-> 0, fits |-> TRUE]
    ELSE IF ex >= 0
    THEN IF ex > MaxWhole \/ val * Ten(ex) >= Ten(MaxWhole) * Unit
         THEN [val |-> 0, fits |-> FALSE]
         ELSE [val |-> val * Ten(ex), fits |-> TRUE]
    ELSE IF -ex > MaxWhole + Places \/ val % Ten(-ex) # 0
    THEN [val |-> 0, fits |-> FALSE]
    ELSE [val |-> val \div Ten(-ex), fits |-> TRUE]
Negated(num, minus) == IF minus THEN [num EXCEPT !.val = -num.val] ELSE num
NumberOf(tok) ==
    LET from == 1 + Signed(tok, 1)
        whole == DigitRun(tok, from)
        lead == Min2(whole, ZeroRun(tok, from))
        dot == IF CharAt(tok, from + whole) = 46 THEN 1 ELSE 0
        frac == DigitRun(tok, from + whole + dot)
        kept == Min2(frac, Places)
        mark == from + whole + dot + frac
        tail == from + whole + dot + kept
        ex == IF mark > Len(tok) THEN 0
              ELSE IF DigitRun(tok, mark + 1 + Signed(tok, mark + 1)) > 2
              THEN IF CharAt(tok, mark + 1) = 45 THEN -99 ELSE 99
              ELSE (IF CharAt(tok, mark + 1) = 45 THEN -1 ELSE 1)
                     * DigitsValue(tok, mark + 1 + Signed(tok, mark + 1),
                                   Len(tok))
    IN  IF whole - lead > MaxWhole
             \/ \E k \in tail..(mark - 1) : CharAt(tok, k) # 48
        THEN [val |-> 0, fits |-> FALSE]
        ELSE Negated(Scaled(DigitsValue(tok, from + lead, from + whole - 1)
                                * Unit
                              + DigitsValue(tok, from + whole + dot, tail - 1)
                                  * Ten(Places - kept),
                            ex),
                     CharAt(tok, 1) = 45)
\* encSmallInt(n)
encSmallInt(num) == encChar(SMALL0 + (num - SMALL_MIN))
\* encFixedPointExact(x, div): << >> stands for null.  The tolerance eps
\* of 1e-10 decides nothing for the numerals of the model's paths.
encFixedPointExact(num, div) ==
    IF ~num.fits \/ Abs(num.val) > 22 * B * Unit THEN << >>
    ELSE IF (num.val * div) % Unit # 0 THEN << >>
    ELSE IF (num.val * div) \div Unit + FP_OFF < 0
              \/ (num.val * div) \div Unit + FP_OFF >= 22 * B
    THEN << >>
    ELSE encChar(FP_HI0 + ((num.val * div) \div Unit + FP_OFF) \div B)
           \o encChar(((num.val * div) \div Unit + FP_OFF) % B)
\* encLiteral(str): chunks of at most 93 characters
RECURSIVE encLiteral(_)
encLiteral(str) ==
    IF str = << >> THEN << >>
    ELSE encChar(ESC) \o encChar(Min2(93, Len(str)))
           \o SubSeq(str, 1, Min2(93, Len(str)))
           \o encLiteral(SubSeq(str, Min2(93, Len(str)) + 1, Len(str)))
\* `const div = (cmdIndex & 1) ? 100 : 10`
DivOf(cmdIndex) == IF cmdIndex % 2 = 1 THEN 100 ELSE 10
\* Number.isInteger(x) && x >= SMALL_MIN && x <= SMALL_MAX
IsSmall(num) ==
    /\ num.fits /\ num.val % Unit = 0
    /\ num.val \div Unit >= SMALL_MIN /\ num.val \div Unit <= SMALL_MAX
\* One turn of encodePath's loop for the token tok; run = [out, cmdIndex,
\* divs], where divs lists the divisor of every fixed-point number written.
encodeToken(run, tok) ==
    IF Len(tok) = 1 /\ indexOf(tok[1]) >= 0
    THEN [run EXCEPT !.out = @ \o encChar(indexOf(tok[1])),
                     !.cmdIndex = indexOf(tok[1])]
    ELSE IF IsNumber(tok)
    THEN IF IsSmall(NumberOf(tok))
         THEN [run EXCEPT
                 !.out = @ \o encSmallInt(NumberOf(tok).val \div Unit)]
         ELSE IF encFixedPointExact(NumberOf(tok), DivOf(run.cmdIndex)) # << >>
         THEN [run EXCEPT
                 !.out = @ \o encFixedPointExact(NumberOf(tok),
                                                 DivOf(run.cmdIndex)),
                 !.divs = Append(@, {DivOf(run.cmdIndex)})]
         ELSE [run EXCEPT !.out = @ \o encLiteral(tok \o <<32>>)]
    ELSE IF \A k \in 1..Len(tok) : IsSpace(tok[k]) THEN run
    ELSE [run EXCEPT !.out = @ \o encLiteral(tok)]
RECURSIVE encodeTokens(_, _, _)
encodeTokens(run, parts, k) ==
    IF k > Len(parts) THEN run
    ELSE encodeTokens(encodeToken(run, parts[k]), parts, k + 1)
\* `let out = "", cmdIndex = 0`
encodeRun(path) ==
    encodeTokens([out |-> << >>, cmdIndex |-> 0, divs |-> << >>],
                 TOK_RE(path, 1), 1)
encodePath(path) == encodeRun(path).out

\* The decimal digits of a whole number >= 0, and of the fraction part/div.
RECURSIVE WholeDigits(_)
WholeDigits(num) ==
    IF num < 10 THEN <<48 + num>>
    ELSE WholeDigits(num \div 10) \o <<48 + (num % 10)>>
RECURSIVE FracDigits(_, _)
FracDigits(part, div) ==
    IF part = 0 THEN << >>
    ELSE <<48 + ((part * 10) \div div)>>
           \o FracDigits((part * 10) % div, div)
\* The string of the number raw / div: "NaN" when div is undefined ({}).
NumberString(raw, div) ==
    IF div = {} THEN <<78, 97, 78>>
    ELSE LET by == CHOOSE one \in div : TRUE
         IN  (IF raw < 0 THEN <<45>> ELSE << >>)
               \o WholeDigits(Abs(raw) \div by)
               \o (IF Abs(raw) % by = 0 THEN << >>
                   ELSE <<46>> \o FracDigits(Abs(raw) % by, by))
\* The divisor the encoder starts with: cmdIndex = 0, 'M'.
StartDivTen == {DivOf(0)}
\* `let s`: no divisor before the first command
StartDiv == {}
\* n = _ => e.charCodeAt(d++) - 33
CodeAt(enc, i) == CharAt(enc, i) - CH0
\* One turn of decodePath's loop at place i; run = [t, s, divs, at].
decodeStep(enc, run, i) ==
    IF CodeAt(enc, i) < 20
    THEN [run EXCEPT !.t = @ \o <<CMD[CodeAt(enc, i) + 1]>>,
                     !.s = {DivOf(CodeAt(enc, i))},
                     !.at = i + 1]
    ELSE IF CodeAt(enc, i) < 71
    THEN [run EXCEPT
            !.t = @ \o NumberString(CodeAt(enc, i) - 45, {1}) \o <<32>>,
            !.at = i + 1]
    ELSE IF CodeAt(enc, i) = 71
    THEN [run EXCEPT
            !.t = @ \o SubSeq(enc, i + 2,
                              Min2(Len(enc), i + 1 + CodeAt(enc, i + 1))),
            !.at = i + 2 + CodeAt(enc, i + 1)]
    ELSE [run EXCEPT
            !.t = @ \o NumberString(94 * (CodeAt(enc, i) - 72)
                                  + CodeAt(enc, i + 1) - 1033, run.s)
                    \o <<32>>,
            !.divs = Append(@, run.s),
            !.at = i + 2]
RECURSIVE decodeFrom(_, _)
decodeFrom(enc, run) ==
    IF run.at > Len(enc) THEN run
    ELSE decodeFrom(enc, decodeStep(enc, run, run.at))
decodeRun(enc, start) ==
    decodeFrom(enc, [t |-> << >>, s |-> start, divs |-> << >>, at |-> 1])
decodePath(enc) == decodeRun(enc, StartDiv).t
\* path.replace(/\s+/g, '')
IsInk(ch) == ~IsSpace(ch)
Unspaced(str) == SelectSeq(str, IsInk)

\* ------------------------------------------------------------------ state
VARIABLES
    pc,       \* where makeTestImage is: idle, row, col, z, store, returned, thrown
    args,     \* the caller's arguments [W, H, S, C, L, P]; S, C, L, P are {} when
              \* not given, else {value}: the caller's own arrays, by reference
    SCENES,   \* the module's preset table
    l, f,     \* the row and column of the pixel loop
    a, r,     \* z's accumulated colour and throughput
    e, t,     \* z's current ray: origin and direction
    it,       \* z's loop counter _
    eIsC,     \* whether e still names the camera array C that z was called with
    n,        \* the tone-mapped colour of the pixel last stored, [nan, n]
    data,     \* the Uint8ClampedArray, index -> byte (empty before allocation)
    ret,      \* what the caller has received from the call: {} or {buffer}
    prev,     \* the remembered first call: {} or {[args, out, phase]}
    writes,   \* index -> number of stores to it in this call
    nPrim,    \* intersections of the current ray: primary ...
    nShad,    \* ... and shadow rays
    nPix,     \* pixels the loop has entered in this call
    hit,      \* Q, the intersection result of z's last iteration
    wk,       \* pixels computed apart: worker -> its own locals of the loop
    todo,     \* ... and the pixels no worker has taken yet
    probe,    \* one function applied alone: [fn, in, out], out {} before
    cli,      \* the process running main: [at, argv, opts, status, err, files]
    codec     \* path-codec.js --encode-all on one path: [at, path, enc, dec, ...]

vars == <<pc, args, SCENES, l, f, a, r, e, t, it, eIsC, n, data, ret, prev,
          writes, nPrim, nShad, nPix, hit, wk, todo, probe, cli, codec>>
workers == <<wk, todo>>
zLocals == <<a, r, e, t, it, eIsC, nPrim, nShad, hit>>

\* Hundredths on the grid; a sphere [radius, r, g, b, reflectivity, x, y, z].
Lit(hundredths) == Dec(hundredths, 100)
Sphere(rad, cr, cg, cb, refl, px, py, pz) ==
    <<Lit(rad), Lit(cr), Lit(cg), Lit(cb), Lit(refl), Lit(px), Lit(py), Lit(pz)>>

\* const SCENES = {...}, the presets the model uses.
Presets ==
    [default |-> << Sphere(60, 90, 20, 30, 30, -100, 60, 0),
                    Sphere(50, 20, 80, 90, 40, 80, 50, 50),
                    Sphere(80, 95, 95, 100, 85, 30, 80, -80),
                    Sphere(40, 100, 90, 30, 20, -30, 40, 80) >>,
     mirror  |-> << Sphere(120, 98, 98, 100, 95, 0, 120, 0) >>,
     single  |-> << Sphere(90, 95, 50, 15, 35, 0, 90, 0) >>]

\* arg || dflt for an optional array or function argument
Or(arg, dflt) == IF arg = {} THEN dflt ELSE CHOOSE val \in arg : TRUE

W == args.W
H == args.H
\* C = C || [0, 1.4, 4]; L = L || [0, 0.8, -2]; P = P || checker 8;
\* S = S || SCENES.default
C == Or(args.C, <<0, Dec(14, 10), 4 * Scale>>)
L == Or(args.L, <<0, Dec(8, 10), -2 * Scale>>)
P == Or(args.P, Checker(8))
S == Or(args.S, SCENES.default)

\* The camera basis: forward w, right y, up G.
w == g(R(L, C))
y == g(x(w, <<0, Scale, 0>>))
G == g(x(y, w))

\* let a = 0.4 * (1 - 2 * (l + 0.5) / H), the vertical offset of row `row`
RowOffset(row) ==
    Mul(Dec(4, 10), Scale - Quo(2 * (row * Scale + Dec(5, 10)), H * Scale))
\* 0.4 * (2 * (f + 0.5) / W - 1) * (W / H), the horizontal offset of column `col`
ColOffset(col) ==
    Mul(Mul(Dec(4, 10), Quo(2 * (col * Scale + Dec(5, 10)), W * Scale) - Scale),
        Quo(W * Scale, H * Scale))
\* The camera ray through pixel (row, col).
PrimaryRay(row, col) ==
    g(u(u(c(y, ColOffset(col)), c(G, RowOffset(row))), w))

\* Mutant: the row stride W is forgotten.
IdxNoStride(row, col) == 4 * (row + col)
\* let idx = 4 * (l * W + f)
Idx(row, col) == 4 * (row * W + col)
\* new Uint8ClampedArray(W * H * 4): zero-filled; a negative length throws.
BufLen == W * H * 4
NewBuffer == [idx \in 0..(BufLen - 1) |-> 0]

\* ----------------------------------------------------------------- inputs
\* Two overlapping spheres, mirror images of each other in the plane x = 0.
TwinScene == << Sphere(120, 90, 20, 20, 30, -100, 120, 0),
                Sphere(120, 20, 20, 90, 30, 100, 120, 0) >>
\* One sphere that reflects nothing.
MatteScene == << Sphere(100, 80, 30, 20, 0, 0, 100, 0) >>

\* A vector of whole numbers on the grid.
Whole(vec) == [i \in 1..3 |-> vec[i] * Scale]

SceneArgs == {{}, {Presets.single}, {TwinScene}, {MatteScene}, {<< >>}}
CamArgs == {{}, {<<0, Scale, 4 * Scale>>}}
LookArgs == {{}, {<<0, 0, 0>>}}
TexArgs == {{}, {Checker(4)}, {Throwing}}

Inputs == [W : -1..MaxW, H : -1..MaxH, S : SceneArgs, C : CamArgs,
           L : LookArgs, P : TexArgs]
\* The calls made between a remembered call and its repetition.
OtherInputs ==
    {[W |-> 1, H |-> 1, S |-> {Presets.single}, C |-> {}, L |-> {}, P |-> {}],
     [W |-> 1, H |-> 1, S |-> {}, C |-> {<<0, Scale, 4 * Scale>>},
      L |-> {<<0, 0, 0>>}, P |-> {Checker(4)}]}

\* Calls whose camera is degenerate: C equal to L (at the default spot, at
\* the centre of MatteScene's sphere), and C straight above or below L, so
\* that the forward vector is parallel to the world-up [0, 1, 0] of line 82.
DegenerateCameras ==
    {<<Whole(<<0, 1, 4>>), Whole(<<0, 1, 4>>)>>,
     <<Whole(<<0, 1, 0>>), Whole(<<0, 1, 0>>)>>,
     <<Whole(<<0, 4, 0>>), Whole(<<0, 0, 0>>)>>,
     <<Whole(<<0, 1, 4>>), Whole(<<0, 3, 4>>)>>}
DegenerateInputs ==
    {[W |-> width, H |-> height, S |-> scene, C |-> {cam[1]}, L |-> {cam[2]},
      P |-> tex] :
        width \in 1..MaxW, height \in 1..MaxH,
        scene \in {{}, {TwinScene}, {MatteScene}},
        cam \in DegenerateCameras, tex \in {{}, {Checker(4)}}}

NoProbe == [fn |-> "", in |-> << >>, out |-> {}]
\* No process runs main: makeTestImage is called as a library function.
NoCli == [at |-> "", argv |-> << >>, opts |-> << >>, status |-> {},
          err |-> << >>, files |-> {}]
\* path-codec.js is not running.
NoCodec == [at |-> "", path |-> << >>, enc |-> << >>, encDivs |-> << >>,
            dec |-> << >>, decDivs |-> << >>, warned |-> FALSE]
\* Marks a process whose first call has a degenerate camera.
Degenerate == [fn |-> "degenerate", in |-> << >>, out |-> {}]
NoArgs == [W |-> 0, H |-> 0, S |-> {}, C |-> {}, L |-> {}, P |-> {}]
Zero3 == <<0, 0, 0>>
One3 == <<Scale, Scale, Scale>>

\* ---------------------------------------------------------------- actions
Init ==
    /\ pc = "idle"
    /\ args = NoArgs
    /\ SCENES = Presets
    /\ l = 0 /\ f = 0
    /\ a = Zero3 /\ r = One3 /\ e = Zero3 /\ t = Zero3 /\ it = 0
    /\ eIsC = FALSE
    /\ n = [nan |-> FALSE, n |-> Zero3]
    /\ data = << >>
    /\ ret = {}
    /\ prev = {}
    /\ writes = << >>
    /\ nPrim = 0 /\ nShad = 0 /\ nPix = 0
    /\ hit = Miss
    /\ wk = << >> /\ todo = {}
    /\ probe = NoProbe
    /\ cli = NoCli /\ codec = NoCodec

\* The calls a process makes: a first call with any arguments, which is
\* remembered with its outcome; then calls from OtherInputs; then the first
\* call again, after which the process makes no further call.
Remembered == CHOOSE one \in prev : TRUE
CallChoices ==
    IF pc = "idle"
    THEN IF probe = Degenerate THEN DegenerateInputs ELSE Inputs
    ELSE IF Remembered.phase = "again" THEN {}
    ELSE {Remembered.args} \cup OtherInputs
PrevAtCall(given) ==
    IF pc = "idle" THEN {[args |-> given, out |-> {}, phase |-> "first"]}
    ELSE {[Remembered EXCEPT
             !.phase = IF given = Remembered.args THEN "again" ELSE "between"]}

\* makeTestImage(W, H, S, C, L, P) is entered: defaults, basis, allocation.
Enter(given) ==
    /\ args' = given
    /\ prev' = PrevAtCall(given)
    /\ IF given.W * given.H * 4 < 0
       THEN /\ pc' = "thrown"
            /\ data' = << >>
            /\ writes' = << >>
       ELSE /\ pc' = "row"
            /\ data' = [idx \in 0..(given.W * given.H * 4 - 1) |-> 0]
            /\ writes' = [idx \in 0..(given.W * given.H * 4 - 1) |-> 0]
    /\ l' = 0 /\ f' = 0 /\ nPix' = 0
    /\ ret' = {}
    /\ UNCHANGED <<SCENES, codec, workers, probe, zLocals, n>>
\* A caller of the library function calls it.
Call ==
    /\ pc \in {"idle", "returned", "thrown"}
    /\ \E given \in CallChoices : Enter(given)
    /\ UNCHANGED cli

\* Mutant: the row loop stops one row early.
RowsLeftShort == l < H - 1
\* `l < H` and `f < W`, the loop tests
RowsLeft == l < H
\* Mutant: the column loop stops one column early.
ColsLeftShort == f < W - 1
ColsLeft == f < W

\* for (let l = 0; l < H; l++): a row starts.
Row ==
    /\ pc = "row" /\ RowsLeft
    /\ pc' = "col" /\ f' = 0
    /\ UNCHANGED <<args, SCENES, codec, cli, workers, probe, l, zLocals, n, data, ret, prev, writes, nPix>>

\* The row loop is over: return { data, width: W, height: H }.
Return ==
    /\ pc = "row" /\ ~RowsLeft
    /\ pc' = "returned"
    /\ ret' = {data}
    /\ prev' = IF Remembered.phase = "first"
               THEN {[Remembered EXCEPT !.out = {data}]}
               ELSE prev
    /\ UNCHANGED <<args, SCENES, codec, cli, workers, probe, l, f, zLocals, n, data, writes, nPix>>

\* Mutant: the accumulator a lives outside z and is not reset on entry.
EnterZKeepsColour ==
    /\ pc = "col" /\ ColsLeft
    /\ pc' = "z"
    /\ r' = One3
    /\ e' = C /\ eIsC' = TRUE
    /\ t' = PrimaryRay(l, f)
    /\ it' = 0 /\ nPrim' = 0 /\ nShad' = 0
    /\ nPix' = nPix + 1
    /\ UNCHANGED <<args, SCENES, codec, cli, workers, probe, l, f, n, data, ret, prev, writes, hit, a>>
\* for (let f = 0; f < W; f++): z(C, g(...)) is entered for pixel (l, f).
EnterZ ==
    /\ pc = "col" /\ ColsLeft
    /\ pc' = "z"
    /\ a' = Zero3 /\ r' = One3
    /\ e' = C /\ eIsC' = TRUE
    /\ t' = PrimaryRay(l, f)
    /\ it' = 0 /\ nPrim' = 0 /\ nShad' = 0
    /\ nPix' = nPix + 1
    /\ UNCHANGED <<args, SCENES, codec, cli, workers, probe, l, f, n, data, ret, prev, writes, hit>>

\* The column loop is over: l++.
RowEnd ==
    /\ pc = "col" /\ ~ColsLeft
    /\ pc' = "row" /\ l' = l + 1
    /\ UNCHANGED <<args, SCENES, codec, cli, workers, probe, f, zLocals, n, data, ret, prev, writes, nPix>>

\* Mutant: the new origin is written into the array e names, which in the
\* first iteration is the caller's camera array.
WriteThroughE(given, alias, val) ==
    IF alias /\ given.C # {} THEN [given EXCEPT !.C = {val}] ELSE given
\* `e = u(Z, c(q, 1e-4))` rebinds the name e to a fresh array: the array e
\* named before (the camera array C in the first iteration) is untouched.
RebindE(given, alias, val) == given

\* Mutant: the loop test is `_ <= 3`.
zContinueLate(count) == count <= MaxDepth
\* `_ < 3`
zContinue(count) == count < MaxDepth

\* One iteration of z's loop; z returns on a miss, on break and when the
\* loop ends, and the texture predicate's exception leaves makeTestImage.
zAfter(st) ==
    /\ a' = st.a /\ r' = st.r /\ e' = st.e /\ t' = st.t
    /\ hit' = st.Q
    /\ nPrim' = nPrim + 1
    /\ nShad' = IF st.exit \in {"break", "next"} THEN nShad + 1 ELSE nShad
    /\ it' = IF st.exit = "next" THEN it + 1 ELSE it
    /\ eIsC' = (eIsC /\ st.exit # "next")
    /\ args' = IF st.exit = "next" THEN RebindE(args, eIsC, st.e) ELSE args
    /\ pc' = CASE st.exit = "throw" -> "thrown"
               [] st.exit = "next" /\ zContinue(it + 1) -> "z"
               [] OTHER -> "store"
zIter ==
    /\ pc = "z"
    /\ zAfter(zStep(S, P, [a |-> a, r |-> r, e |-> e, t |-> t, exit |-> "",
                            Q |-> Miss]))
    /\ UNCHANGED <<SCENES, codec, cli, workers, probe, l, f, n, data, ret, prev, writes, nPix>>

\* The pixel's colour is tone-mapped and stored; f++.
\* Mutant: the alpha byte is left as allocated.
PutNoAlpha(buf, at, tm) ==
    [buf EXCEPT ![at] = ToUint8Clamped(tm.nan, tm.n[1]),
                ![at + 1] = ToUint8Clamped(tm.nan, tm.n[2]),
                ![at + 2] = ToUint8Clamped(tm.nan, tm.n[3])]
\* `data[idx] = n[0] * 255; ...; data[idx + 3] = 255`
Put(buf, at, tm) ==
    [buf EXCEPT ![at] = ToUint8Clamped(tm.nan, tm.n[1]),
                ![at + 1] = ToUint8Clamped(tm.nan, tm.n[2]),
                ![at + 2] = ToUint8Clamped(tm.nan, tm.n[3]),
                ![at + 3] = 255]
Count(cnt, at) ==
    [cnt EXCEPT ![at] = @ + 1, ![at + 1] = @ + 1, ![at + 2] = @ + 1,
                ![at + 3] = @ + 1]
StoreAt(at, tm) ==
    /\ n' = tm
    /\ data' = Put(data, at, tm)
    /\ writes' = Count(writes, at)
Store ==
    /\ pc = "store"
    /\ StoreAt(Idx(l, f), ToneMap(a, l, f, W, H))
    /\ f' = f + 1
    /\ pc' = "col"
    /\ UNCHANGED <<args, SCENES, codec, cli, workers, probe, l, zLocals, ret, prev, nPix>>

Next == Call \/ Row \/ Return \/ EnterZ \/ RowEnd \/ zIter \/ Store

Spec == Init /\ [][Next]_vars

\* makeTestImage is synchronous: once called, its steps are taken until it
\* returns or throws.  When the caller calls is up to the caller.  Every
\* step of a running call moves the program point or z's loop counter, and
\* a running call always has a next step (the guards of the steps at each
\* program point are exhaustive), so the fairness is stated on that
\* movement.
Step == Row \/ Return \/ EnterZ \/ RowEnd \/ zIter \/ Store
Advance ==
    /\ pc \in {"row", "col", "z", "store"}
    /\ pc' \in {"row", "col", "z", "store", "returned", "thrown"}
    /\ it' \in 0..(it + 1)
LiveSpec == Init /\ [][Next]_vars /\ WF_<<pc, it>>(Advance)

\* ------------------------------------------------- the intersector alone
\* v applied to one ray of one scene: the rays and scenes it is given.
\* A sphere sunk into the plane, cutting it in the circle of radius 0.8.
SunkScene == << Sphere(100, 20, 90, 20, 30, 0, -60, 0) >>
\* Two overlapping spheres of different colours, mirror images in x = 0,
\* behind a third sphere.
PairScene == << Sphere(50, 90, 20, 20, 30, -30, 100, 0),
                Sphere(50, 20, 20, 90, 0, 30, 100, 0),
                Sphere(50, 20, 90, 20, 30, 0, 100, -200) >>
ProbeScenes ==
    {<< >>, Presets.default, Presets.single, TwinScene, SunkScene, PairScene}
ProbeOrigins ==
    {<<0, Dec(14, 10), 4 * Scale>>, <<Dec(8, 10), 2 * Scale, 0>>,
     <<0, Scale, 2 * Scale>>, <<0, Dec(12, 10), 0>>,
     <<0, -Dec(5, 10), 2 * Scale>>}
ProbeAims ==
    {<<0, 0, -1>>, <<0, -1, 0>>, <<0, 1, 0>>, <<0, -1, -4>>, <<1, -2, -4>>,
     <<-1, -1, -4>>, <<0, 1, -4>>, <<1, 0, 0>>, <<0, 0, 1>>}

InitV ==
    /\ pc = "probe"
    /\ args \in {[NoArgs EXCEPT !.S = {scene}] : scene \in ProbeScenes}
    /\ SCENES = Presets
    /\ l = 0 /\ f = 0
    /\ a = Zero3 /\ r = One3 /\ it = 0
    /\ e \in ProbeOrigins
    /\ t \in {g(Whole(aim)) : aim \in ProbeAims}
    /\ eIsC = FALSE
    /\ n = [nan |-> FALSE, n |-> Zero3]
    /\ data = << >>
    /\ ret = {}
    /\ prev = {}
    /\ writes = << >>
    /\ nPrim = 0 /\ nShad = 0 /\ nPix = 0
    /\ hit = Miss
    /\ wk = << >> /\ todo = {}
    /\ probe = NoProbe
    /\ cli = NoCli /\ codec = NoCodec
\* `let Q = v(e, t)`
Intersect ==
    /\ pc = "probe"
    /\ hit' = v(S, e, t)
    /\ pc' = "probed"
    /\ UNCHANGED <<args, SCENES, codec, cli, workers, probe, l, f, a, r, e, t, it, eIsC, n, data, ret,
                   prev, writes, nPrim, nShad, nPix>>
SpecV == InitV /\ [][Intersect]_vars

\* ------------------------------------------- the pixels in any order
\* The body of the pixel loop run by NWorkers workers: each takes any pixel
\* not yet taken, runs z on its own locals (`let` variables of the call it
\* runs) and stores into the one shared buffer; the steps of the workers
\* interleave.  The join is the `return` of the buffer.
NWorkers == 2
Workers == 1..NWorkers
Pixels == (0..(H - 1)) \X (0..(W - 1))
Resting == [pc |-> "idle", l |-> 0, f |-> 0, a |-> Zero3, r |-> One3,
            e |-> Zero3, t |-> Zero3, it |-> 0]
ParInputs ==
    [W : 1..MaxW, H : 1..MaxH, S : {{}, {TwinScene}}, C : {{}}, L : {{}},
     P : {{}}]

InitPar ==
    /\ pc = "par"
    /\ args \in ParInputs
    /\ SCENES = Presets
    /\ l = 0 /\ f = 0
    /\ a = Zero3 /\ r = One3 /\ e = Zero3 /\ t = Zero3 /\ it = 0
    /\ eIsC = FALSE
    /\ n = [nan |-> FALSE, n |-> Zero3]
    /\ data = NewBuffer
    /\ writes = NewBuffer
    /\ ret = {}
    /\ prev = {}
    /\ nPrim = 0 /\ nShad = 0 /\ nPix = 0
    /\ hit = Miss
    /\ wk = [who \in Workers |-> Resting]
    /\ todo = Pixels
    /\ probe = NoProbe
    /\ cli = NoCli /\ codec = NoCodec

\* `let a = [0, 0, 0], r = [1, 1, 1]` of z(C, g(...)) for the pixel taken
Taken(px) ==
    [pc |-> "z", l |-> px[1], f |-> px[2], a |-> Zero3, r |-> One3, e |-> C,
     t |-> PrimaryRay(px[1], px[2]), it |-> 0]
Take(who) ==
    /\ pc = "par" /\ wk[who].pc = "idle"
    /\ \E px \in todo :
         /\ todo' = todo \ {px}
         /\ wk' = [wk EXCEPT ![who] = Taken(px)]
    /\ UNCHANGED <<pc, args, SCENES, codec, cli, probe, l, f, zLocals, n, data, ret, prev,
                   writes, nPix>>

\* One iteration of z's loop on the worker's locals.
Traced(mine, st) ==
    [mine EXCEPT !.a = st.a, !.r = st.r, !.e = st.e, !.t = st.t,
                 !.it = IF st.exit = "next" THEN @ + 1 ELSE @,
                 !.pc = IF st.exit = "next" /\ zContinue(mine.it + 1)
                        THEN "z" ELSE "store"]
TraceOf(who, mine) ==
    wk' = [wk EXCEPT ![who] =
              Traced(mine, zStep(S, P, [a |-> mine.a, r |-> mine.r,
                                        e |-> mine.e, t |-> mine.t,
                                        exit |-> "", Q |-> Miss]))]
Trace(who) ==
    /\ pc = "par" /\ wk[who].pc = "z"
    /\ TraceOf(who, wk[who])
    /\ UNCHANGED <<pc, args, SCENES, codec, cli, probe, l, f, zLocals, n, data, ret, prev,
                   writes, nPix, todo>>

\* The worker's pixel is tone-mapped and stored.
WriteOf(who, mine) ==
    /\ data' = Put(data, Idx(mine.l, mine.f),
                   ToneMap(mine.a, mine.l, mine.f, W, H))
    /\ writes' = Count(writes, Idx(mine.l, mine.f))
    /\ wk' = [wk EXCEPT ![who] = [mine EXCEPT !.pc = "idle"]]
Write(who) ==
    /\ pc = "par" /\ wk[who].pc = "store"
    /\ WriteOf(who, wk[who])
    /\ UNCHANGED <<pc, args, SCENES, codec, cli, probe, l, f, zLocals, n, ret, prev, nPix, todo>>

\* Every pixel is done: `return { data, width: W, height: H }`.
Join ==
    /\ pc = "par" /\ todo = {}
    /\ \A who \in Workers : wk[who].pc = "idle"
    /\ pc' = "joined"
    /\ ret' = {data}
    /\ UNCHANGED <<args, SCENES, codec, cli, workers, probe, l, f, zLocals, n, data, prev,
                   writes, nPix>>

NextPar == (\E who \in Workers : Take(who) \/ Trace(who) \/ Write(who)) \/ Join
SpecPar == InitPar /\ [][NextPar]_vars

\* ------------------------------------------------ one function alone
\* A function of the program applied to inputs drawn from bounded sets:
\* probe holds the function's name, its input and, once applied, its output.
\* The root choice of v is applied on a grid of Fine steps to one, on
\* which 1e-4 is one step.
Fine == Scale * Scale
MaxRoot == 6
Quiet ==
    /\ SCENES = Presets
    /\ l = 0 /\ f = 0
    /\ a = Zero3 /\ r = One3 /\ e = Zero3 /\ t = Zero3 /\ it = 0
    /\ eIsC = FALSE
    /\ n = [nan |-> FALSE, n |-> Zero3]
    /\ data = << >>
    /\ ret = {}
    /\ prev = {}
    /\ writes = << >>
    /\ nPrim = 0 /\ nShad = 0 /\ nPix = 0
    /\ hit = Miss
    /\ wk = << >> /\ todo = {}
Asked(fn, ins) == {[fn |-> fn, in |-> in, out |-> {}] : in \in ins}
Applied(out) ==
    /\ probe' = [probe EXCEPT !.out = out]
    /\ pc' = "applied"
    /\ UNCHANGED <<args, SCENES, codec, cli, workers, l, f, zLocals, n, data, ret, prev,
                   writes, nPix>>

\* `bb = -w - l; if (bb < 1e-4) bb = -w + l; if (bb > 1e-4 && bb < t)` with
\* t = 1e9: the candidate of a sphere with w = b(q, m) and l = M.sqrt(x).
vCandidateAt(unit, ww, ll) ==
    {bb \in {vPickAt(unit, ww, ll)} : vAcceptAt(unit, bb, TFar)}
RootInputs == Asked("root", (-MaxRoot..MaxRoot) \X (1..MaxRoot))
Root ==
    /\ pc = "fn" /\ probe.fn = "root"
    /\ Applied(vCandidateAt(Fine, probe.in[1], probe.in[2]))

\* The plane test of v, lines 94-97, on rays from above, on and below the
\* plane.
Rays ==
    (ProbeOrigins \cup {<<0, 0, 0>>, <<0, -Scale, 0>>, <<Scale, -Dec(1, 100), 0>>})
        \X {g(Whole(aim)) : aim \in ProbeAims}
PlaneInputs == Asked("plane", Rays)
Plane ==
    /\ pc = "fn" /\ probe.fn = "plane"
    /\ Applied({vPlane(probe.in[1], probe.in[2])})

\* The camera basis w, y, G of lines 81-84 for a camera and a look-at
\* target, among them cameras straight above and below the target and the
\* camera at the target.
MaxCam == 1
Cameras == (-MaxCam..MaxCam) \X (0..2) \X {0, 4}
Targets == {<<0, 0, 0>>, <<0, 1, 0>>, <<1, 0, -2>>}
BasisInputs ==
    Asked("basis", {<<Whole(cam), Whole(look)>> :
                        cam \in Cameras, look \in Targets})
Basis ==
    /\ pc = "fn" /\ probe.fn = "basis"
    /\ Applied({<<w, y, G>>})

\* The arguments a probe is made with.
ArgsOf(asked) ==
    IF asked.fn = "basis"
    THEN [NoArgs EXCEPT !.C = {asked.in[1]}, !.L = {asked.in[2]}]
    ELSE NoArgs
\* The plane texture alone: the default predicate of line 78 (scale 8) and
\* the predicate main builds from --checker (lines 216-217, here scale 4),
\* evaluated at [x, 0, z] and one period 2/scale further along x.
MaxCoord == 60
Period(scale) == (2 * Scale) \div scale
TextureInputs ==
    Asked("texture", {Checker(8), Checker(4)} \X (-MaxCoord..MaxCoord)
                         \X {-Dec(3, 10), 0, Dec(3, 10)})
Texture ==
    /\ pc = "fn" /\ probe.fn = "texture"
    /\ Applied({<<PValue(probe.in[1], <<probe.in[2], 0, probe.in[3]>>),
                  PValue(probe.in[1], <<probe.in[2] + Period(probe.in[1].scale),
                                        0, probe.in[3]>>)>>})

\* One iteration of z alone, entered with a = [0, 0, 0] and r = [1, 1, 1],
\* so that the accumulator after it is the colour that entered the sum: the
\* sky colour on a miss, the radiance sample GG on a hit.
\* A sphere 30 away along the sun direction from the plane point (0.8, 0, 0),
\* whose near side is 22 away.
FarScene == << Sphere(800, 20, 90, 20, 30, -1870, 1950, 1170) >>
SampleScenes == {Presets.single, Presets.default, MatteScene, FarScene}
SampleInputs ==
    Asked("sample", SampleScenes \X Rays)
Sample ==
    /\ pc = "fn" /\ probe.fn = "sample"
    /\ Applied({zStep(probe.in[1], Checker(8),
                      [a |-> Zero3, r |-> One3, e |-> probe.in[2][1],
                       t |-> probe.in[2][2], exit |-> "", Q |-> Miss])})

\* The inputs of the functions differ in shape, so they are drawn set by
\* set.
FnAsked ==
    \/ probe \in RootInputs
    \/ probe \in PlaneInputs
    \/ probe \in BasisInputs
    \/ probe \in TextureInputs
    \/ probe \in SampleInputs
InitFn ==
    pc = "fn" /\ FnAsked /\ args = ArgsOf(probe) /\ Quiet /\ cli = NoCli /\ codec = NoCodec
NextFn == Root \/ Plane \/ Basis \/ Texture \/ Sample
SpecFn == InitFn /\ [][NextFn]_vars

\* ------------------------------------------------------------------- main
\* The command line: parseArgs (lines 160-189) and main (lines 191-236).
\* An option's value is {} when absent (null, undefined, or a number that
\* did not parse), else {value}.
Numerals ==
    ("-1" :> -1) @@ ("0" :> 0) @@ ("1" :> 1) @@ ("2" :> 2) @@ ("4" :> 4)
        @@ ("8" :> 8)
Triples == ("0,1,4" :> <<0, 1, 4>>) @@ ("0,0,0" :> <<0, 0, 0>>)
\* parseInt(next), parseFloat(next) on the numerals above
ParseNumber(next) == {Numerals[tok] : tok \in next \cap DOMAIN Numerals}
\* next.split(',').map(Number) on the triples above
SplitNumbers(next) == {Whole(Triples[tok]) : tok \in next \cap DOMAIN Triples}
DefaultOpts ==
    [size |-> {256}, width |-> {}, height |-> {}, scene |-> {"default"},
     camera |-> {}, lookat |-> {}, checker |-> {8}, out |-> {},
     listScenes |-> FALSE, threw |-> FALSE]
\* One turn of parseArgs's loop at args[i], with next = args[i + 1];
\* `next.split` throws when --camera or --lookat is the last word.
RECURSIVE ParseFrom(_, _, _)
ParseFrom(argv, i, opts) ==
    IF i > Len(argv) THEN opts
    ELSE LET arg == argv[i]
             next == IF i < Len(argv) THEN {argv[i + 1]} ELSE {}
         IN  CASE arg = "--size" ->
                    ParseFrom(argv, i + 2, [opts EXCEPT !.size = ParseNumber(next)])
               [] arg = "--width" ->
                    ParseFrom(argv, i + 2, [opts EXCEPT !.width = ParseNumber(next)])
               [] arg = "--height" ->
                    ParseFrom(argv, i + 2, [opts EXCEPT !.height = ParseNumber(next)])
               [] arg = "--scene" ->
                    ParseFrom(argv, i + 2, [opts EXCEPT !.scene = next])
               [] arg \in {"--camera", "--lookat"} /\ next = {} ->
                    [opts EXCEPT !.threw = TRUE]
               [] arg = "--camera" /\ next # {} ->
                    ParseFrom(argv, i + 2, [opts EXCEPT !.camera = SplitNumbers(next)])
               [] arg = "--lookat" /\ next # {} ->
                    ParseFrom(argv, i + 2, [opts EXCEPT !.lookat = SplitNumbers(next)])
               [] arg = "--checker" ->
                    ParseFrom(argv, i + 2, [opts EXCEPT !.checker = ParseNumber(next)])
               [] arg = "--out" ->
                    ParseFrom(argv, i + 2, [opts EXCEPT !.out = next])
               [] arg = "--list-scenes" ->
                    ParseFrom(argv, i + 1, [opts EXCEPT !.listScenes = TRUE])
               [] OTHER -> ParseFrom(argv, i + 1, opts)
parseArgs(argv) == ParseFrom(argv, 1, DefaultOpts)

\* The names every object literal inherits from Object.prototype.
ObjectPrototype ==
    {"toString", "constructor", "__proto__", "hasOwnProperty", "valueOf"}
\* `SCENES[opts.scene]`: the property lookup on the object literal SCENES
\* finds its own properties and the inherited ones, else undefined.
Lookup(name) ==
    IF name = {} THEN {}
    ELSE LET word == CHOOSE one \in name : TRUE
         IN  IF word \in DOMAIN SCENES THEN {SCENES[word]}
             ELSE IF word \in ObjectPrototype THEN {NotIterable(word)}
             ELSE {}
\* makeTestImage(W, H, scene, opts.camera, opts.lookat, planeTexture)
\* `opts.width || opts.size`: null, NaN and 0 give way to the size; a size
\* that is NaN counts as 0 in the allocation and in the loop tests.
OrSize(num, size) == IF num \in {{}, {0}} THEN Or(size, 0) ELSE Or(num, 0)
CliArgs(opts) ==
    [W |-> OrSize(opts.width, opts.size),
     H |-> OrSize(opts.height, opts.size),
     S |-> Lookup(opts.scene), C |-> opts.camera, L |-> opts.lookat,
     P |-> {Checker(Or(opts.checker, 0))}]

Exit(status, said) ==
    cli' = [cli EXCEPT !.at = "exited", !.status = {status},
                       !.err = cli.err \o said]
AtRest ==
    UNCHANGED <<pc, args, SCENES, codec, workers, probe, l, f, zLocals, n, data,
                ret, prev, writes, nPix>>
\* const opts = parseArgs(process.argv.slice(2))
ParseArgs ==
    /\ cli.at = "main"
    /\ cli' = IF parseArgs(cli.argv).threw
              THEN [cli EXCEPT !.at = "exited", !.opts = parseArgs(cli.argv),
                               !.status = {1}, !.err = <<"TypeError">>]
              ELSE [cli EXCEPT !.at = "parsed", !.opts = parseArgs(cli.argv)]
    /\ AtRest
\* if (opts.listScenes) { ...; process.exit(0); }
ListScenes ==
    /\ cli.at = "parsed" /\ cli.opts.listScenes
    /\ Exit(0, << >>)
    /\ AtRest
\* if (!opts.out) { console.error(...); process.exit(1); }
NoOut ==
    /\ cli.at = "parsed" /\ ~cli.opts.listScenes /\ cli.opts.out = {}
    /\ Exit(1, <<"Error: Must specify --out <filename>">>)
    /\ AtRest
Proceeds == cli.at = "parsed" /\ ~cli.opts.listScenes /\ cli.opts.out # {}
\* `!scene`
SceneMissing(opts) == Lookup(opts.scene) = {}
\* if (!scene) { console.error(`Unknown scene: ...`); process.exit(1); }
UnknownScene ==
    /\ Proceeds /\ SceneMissing(cli.opts)
    /\ Exit(1, <<"Unknown scene", "Use --list-scenes to see available scenes">>)
    /\ AtRest
\* const img = makeTestImage(W, H, scene, ...)
Render ==
    /\ Proceeds /\ ~SceneMissing(cli.opts)
    /\ pc = "idle"
    /\ Enter(CliArgs(cli.opts))
    /\ cli' = [cli EXCEPT !.at = "rendering"]
\* makeTestImage returned: the canvas is filled, encoded and written by
\* fs.writeFileSync(opts.out, buffer); main ends.
Save ==
    /\ cli.at = "rendering" /\ pc = "returned"
    /\ cli' = [cli EXCEPT !.at = "exited", !.status = {0},
                          !.files = cli.files \cup cli.opts.out]
    /\ AtRest
\* An exception left makeTestImage and main: node prints it and exits 1.
Uncaught ==
    /\ cli.at = "rendering" /\ pc = "thrown"
    /\ Exit(1, <<"TypeError">>)
    /\ AtRest
\* createCanvas(W, H) and createImageData(W, H) belong to the canvas
\* package: for a width or height that is not positive they may throw
\* instead of giving a canvas, and then nothing is written.
CanvasThrows ==
    /\ cli.at = "rendering" /\ pc = "returned"
    /\ W <= 0 \/ H <= 0
    /\ Exit(1, <<"Error">>)
    /\ AtRest

SizeWords ==
    {<<"--size", "1">>, <<"--size", "2">>,
     <<"--size", "1", "--width", "2", "--height", "1">>,
     <<"--size", "0">>, <<"--size", "-1">>,
     <<"--size", "2", "--width", "-1">>, <<"--size", "1", "--height", "0">>}
SceneWords ==
    {<< >>, <<"--scene", "single">>, <<"--scene", "bogus">>,
     <<"--scene", "toString">>, <<"--scene", "__proto__">>}
OutWords == {<< >>, <<"--out", "a.png">>}
ListWords == {<< >>, <<"--list-scenes">>}
ViewWords ==
    {<< >>, <<"--camera", "0,1,4", "--lookat", "0,0,0", "--checker", "4">>}
Argvs ==
    {sz \o sc \o ou \o li \o vw :
        sz \in SizeWords, sc \in SceneWords, ou \in OutWords,
        li \in ListWords, vw \in ViewWords}
      \cup {<<"--out", "a.png", "--size", "1", "--scene">>,
            <<"--size", "1", "--out", "a.png", "--camera">>}
InitCli ==
    /\ pc = "idle" /\ probe = NoProbe /\ args = NoArgs /\ Quiet
    /\ cli \in {[NoCli EXCEPT !.at = "main", !.argv = argv] : argv \in Argvs}
    /\ codec = NoCodec
NextCli ==
    \/ ParseArgs \/ ListScenes \/ NoOut \/ UnknownScene \/ Render
    \/ Row \/ Return \/ EnterZ \/ RowEnd \/ zIter \/ Store
    \/ Save \/ Uncaught \/ CanvasThrows
SpecCli == InitCli /\ [][NextCli]_vars

\* The process whose first call has a degenerate camera, scheduled as
\* LiveSpec schedules it.
InitDegenerate ==
    /\ pc = "idle" /\ probe = Degenerate /\ args = NoArgs /\ Quiet
    /\ cli = NoCli /\ codec = NoCodec
SpecDegenerate ==
    InitDegenerate /\ [][Next]_vars /\ WF_<<pc, it>>(Advance)

\* z as a function: the colour the loop of z returns for the locals st.
RECURSIVE zRun(_, _, _, _)
zRunOn(scene, tex, st, count) ==
    IF st.exit = "next" THEN zRun(scene, tex, st, count + 1) ELSE st.a
zRun(scene, tex, st, count) ==
    IF zContinue(count) THEN zRunOn(scene, tex, zStep(scene, tex, st), count)
    ELSE st.a
\* The pixel loop as a function: the buffer after the pixels before
\* (row, col), row-major.
PixelColour(row, col) ==
    zRun(S, P, [a |-> Zero3, r |-> One3, e |-> C, t |-> PrimaryRay(row, col),
                exit |-> "", Q |-> Miss], 0)
RECURSIVE RowMajor(_, _, _)
RowMajor(buf, row, col) ==
    IF ~(row < H) THEN buf
    ELSE IF ~(col < W) THEN RowMajor(buf, row + 1, 0)
    ELSE RowMajor(Put(buf, Idx(row, col),
                      ToneMap(PixelColour(row, col), row, col, W, H)),
                  row, col + 1)
Sequential == RowMajor(NewBuffer, 0, 0)

\* ------------------------------------------------ path-codec.js at work
\* The round-trip check of --encode-all (lines 139-148) on one path: enc =
\* encodePath(path), dec = decodePath(enc), and the warning when the two
\* differ with their whitespace removed.  encDivs and decDivs record the
\* divisor of each fixed-point number as written and as read.
MaxParts == 3
\* "M" "m" "L" "z" " " "," "5" "-16" "30" "1.5" "0.25" ".5" "1.0" "200"
Pieces ==
    {<<77>>, <<109>>, <<76>>, <<122>>, <<32>>, <<44>>, <<53>>,
     <<45, 49, 54>>, <<51, 48>>, <<49, 46, 53>>, <<48, 46, 50, 53>>,
     <<46, 53>>, <<49, 46, 48>>, <<50, 48, 48>>}
RECURSIVE Joined(_)
Joined(count) ==
    IF count = 0 THEN {<< >>}
    ELSE Joined(count - 1)
           \cup {pre \o piece : pre \in Joined(count - 1), piece \in Pieces}
Paths == Joined(MaxParts)
Elsewhere ==
    UNCHANGED <<pc, args, SCENES, cli, workers, probe, l, f, zLocals, n,
                data, ret, prev, writes, nPix>>
\* const enc = encodePath(path)
Encode ==
    /\ codec.at = "path"
    /\ codec' = [codec EXCEPT !.at = "encoded",
                              !.enc = encodePath(codec.path),
                              !.encDivs = encodeRun(codec.path).divs]
    /\ Elsewhere
\* const dec = decodePath(enc)
Decode ==
    /\ codec.at = "encoded"
    /\ codec' = [codec EXCEPT !.at = "decoded",
                              !.dec = decodePath(codec.enc),
                              !.decDivs = decodeRun(codec.enc, StartDiv).divs]
    /\ Elsewhere
\* if (origNorm !== decNorm) console.error(`// WARNING: ... decode mismatch`)
Verify ==
    /\ codec.at = "decoded"
    /\ codec' = [codec EXCEPT
                   !.at = "verified",
                   !.warned = (Unspaced(codec.path) # Unspaced(codec.dec))]
    /\ Elsewhere
InitCodec ==
    /\ pc = "idle" /\ probe = NoProbe /\ args = NoArgs /\ Quiet
    /\ cli = NoCli
    /\ codec \in {[NoCodec EXCEPT !.at = "path", !.path = path] :
                    path \in Paths}
NextCodec == Encode \/ Decode \/ Verify
SpecCodec == InitCodec /\ [][NextCodec]_vars

\* ----------------------------------------------------------------- claims
Running == pc \in {"row", "col", "z", "store"}
Slots == 0..(W * H * 4 - 1)

\* C1: for W > 0 and H > 0 the returned buffer has exactly W*H*4 bytes and
\* the alpha byte 4*(row*W+col)+3 of every pixel is 255.
C1_BufferSizeAndAlpha ==
    (pc = "returned" /\ W > 0 /\ H > 0) =>
        /\ ret = {data}
        /\ DOMAIN data = 0..(W * H * 4 - 1)
        /\ \A row \in 0..(H - 1) : \A col \in 0..(W - 1) :
             data[4 * (row * W + col) + 3] = 255
C1_Witness == pc = "returned" /\ W = 2 /\ H = 2 /\ ret = {data}

\* C2: the store of pixel (l, f) changes only the four bytes
\* 4*(l*W+f) .. 4*(l*W+f)+3, writes each of them once more, and no other
\* step of the render changes the buffer; no slot is ever written twice and
\* a returned buffer has every slot written exactly once.
C2_StoreStep ==
    Running =>
        IF pc = "store"
        THEN \A idx \in Slots :
               IF idx \in (4 * (l * W + f))..(4 * (l * W + f) + 3)
               THEN writes'[idx] = writes[idx] + 1
               ELSE data'[idx] = data[idx] /\ writes'[idx] = writes[idx]
        ELSE data' = data /\ writes' = writes
C2_WrittenOnce ==
    /\ Running => \A idx \in Slots : writes[idx] <= 1
    /\ (pc = "returned" /\ W > 0 /\ H > 0) => \A idx \in Slots : writes[idx] = 1
C2_OwnSlotOnly == [][C2_StoreStep]_vars /\ []C2_WrittenOnce
C2_Witness ==
    /\ pc = "col" /\ W = 2 /\ H = 2 /\ l = 1 /\ f = 1
    /\ writes[8] = 1 /\ writes[11] = 1 /\ writes[12] = 0

\* C3: a call repeated with the same arguments, after the first call and
\* any calls made in between, ends the same way with a byte-identical
\* buffer.
C3_SameInputSameOutput ==
    (pc \in {"returned", "thrown"} /\ prev # {} /\ Remembered.phase = "again")
        => ret = Remembered.out
C3_Witness ==
    /\ pc = "returned" /\ prev # {} /\ Remembered.phase = "again"
    /\ W = 2 /\ H = 2 /\ args.S = {TwinScene}
    /\ \E idx \in Slots : data[idx] \notin {0, 255}

\* C4: for the well-formed scenes of Inputs the colour of every stored
\* pixel is a number with each channel in [0, 1] after the contrast clamp
\* and the vignette, and every byte of the buffer is an integer in
\* [0, 255].
C4_ChannelsInRange ==
    /\ ~n.nan
    /\ \A ch \in 1..3 : n.n[ch] >= 0 /\ n.n[ch] <= Scale
    /\ \A idx \in DOMAIN data : data[idx] \in 0..255
C4_Witness ==
    /\ pc = "col" /\ f > 0
    /\ n.n[2] = 0 /\ n.n[3] > 0
    /\ data[Idx(l, f - 1) + 1] = 0 /\ data[Idx(l, f - 1) + 2] > 0

\* C5: when the pixels have been computed in any order, by workers whose
\* steps interleave, every byte of the buffer equals the byte the sequential
\* row-major loop stores.
C5_OrderIndependent == pc = "joined" => data = Sequential
C5_Witness ==
    /\ pc = "joined" /\ W = 2 /\ H = 2
    /\ ret = {Sequential}
    /\ \E px \in Pixels, qx \in Pixels :
         data[Idx(px[1], px[2])] # data[Idx(qx[1], qx[2])]

\* C6 as claimed: whenever the caller holds a buffer, every slot of it has
\* been written.
C6_AllOrNothing ==
    ret # {} => (pc = "returned" /\ \A idx \in DOMAIN data : writes[idx] = 1)
\* C6 amended: the same for calls whose width and height are not both
\* negative; a call that is running or has thrown has handed over nothing.
C6_AllOrNothingValidSize ==
    /\ (ret # {} /\ ~(W < 0 /\ H < 0)) =>
          /\ pc = "returned" /\ ret = {data}
          /\ \A idx \in DOMAIN data : writes[idx] = 1
    /\ (Running \/ pc = "thrown") => ret = {}
C6_Witness ==
    /\ pc = "thrown" /\ ret = {} /\ W = 2 /\ H = 2 /\ args.P = {Throwing}
    /\ \E idx \in Slots : writes[idx] = 1

\* C7: no step of a render changes the caller's arrays (scene, camera,
\* look-at) or the preset table SCENES.
C7_Frame == (SCENES' = SCENES) /\ (Running => args' = args)
C7_InputsUnchanged == [][C7_Frame]_vars
C7_Witness ==
    /\ pc = "z" /\ it >= 1 /\ ~eIsC
    /\ args.C = {<<0, Scale, 4 * Scale>>} /\ args.S = {Presets.single}

\* C8: a ray takes at most 3 iterations of z's loop, with at most 3
\* primary and 3 shadow intersections; a call that returns has entered
\* exactly W*H pixels (none for an empty image); and every call that has
\* started ends, by returning or by throwing.
C8_Bounded ==
    /\ it <= 3 /\ nPrim <= 3 /\ nShad <= 3
    /\ pc = "z" => it < 3
    /\ pc = "returned" => nPix = (IF W > 0 /\ H > 0 THEN W * H ELSE 0)
C8_StepMoves == Running => (Step /\ <<pc, it>>' # <<pc, it>>)
C8_Terminates ==
    /\ []C8_Bounded
    /\ [][C8_StepMoves]_vars
    /\ Running ~> (pc \in {"returned", "thrown"})
C8_Witness ==
    /\ pc = "returned" /\ W = 2 /\ H = 2 /\ nPix = 4
    /\ it = 3 /\ nPrim = 3 /\ nShad = 3

\* The candidates of a ray: the plane's distance when the ray is not level
\* and the distance exceeds 1e-4, and each sphere's chosen root when it
\* exceeds 1e-4.
PlaneCandidate(org, dir) ==
    IF A(dir[2]) > Dec(1, 1000000)
    THEN {aa \in {Quo(-org[2], dir[2])} : aa > Dec(1, 10000)}
    ELSE {}
SphereCandidate(sph, org, dir) ==
    {bb \in vRoot(sph, org, dir) : bb > Dec(1, 10000)}
SphereCandidates(scene, org, dir) ==
    UNION {SphereCandidate(scene[idx], org, dir) : idx \in 1..Len(scene)}
Candidates(scene, org, dir) ==
    PlaneCandidate(org, dir) \cup SphereCandidates(scene, org, dir)
Nearest(cands) == CHOOSE near \in cands : \A cand \in cands : near <= cand

\* C9: v returns the miss value exactly when the ray has no valid candidate,
\* and otherwise a hit whose distance is the least of the valid candidates
\* of the plane and of every sphere.
C9_NearestOf(cands) ==
    IF cands = {} THEN IsMiss(hit)
    ELSE /\ hit.obj
         /\ hit.t \in cands
         /\ \A cand \in cands : hit.t <= cand
SpheresAt(scene, org, dir, near) ==
    {idx \in 1..Len(scene) : SphereCandidate(scene[idx], org, dir) = {near}}
First(idxs) == CHOOSE low \in idxs : \A idx \in idxs : low <= idx
Reordered(scene, perm) == [idx \in 1..Len(scene) |-> scene[perm[idx]]]
Orders(scene) == Permutations(1..Len(scene))
\* The hit v makes of sphere sph at distance bb.
HitOf(sph, org, dir, bb) == vResult(vHit(bb, u(org, c(dir, bb)), sph))
\* Two candidates at the nearest distance.
Tie(scene, org, dir, near) ==
    Cardinality(SpheresAt(scene, org, dir, near))
        + Cardinality(PlaneCandidate(org, dir) \cap {near}) >= 2

\* C10: a candidate replaces the best hit only when strictly nearer: when
\* the plane is among the nearest candidates the plane is returned, and
\* otherwise the first sphere of the list among them; and the spheres in
\* another order give another result only when two candidates tie at the
\* nearest distance.
C10_Kept(scene, org, dir, near) ==
    IF near \in PlaneCandidate(org, dir)
    THEN hit.k = 0 /\ hit.t = near
    ELSE hit = HitOf(scene[First(SpheresAt(scene, org, dir, near))],
                     org, dir, near)
C10_OrderOnlyInTies(scene, org, dir, near) ==
    \A perm \in Orders(scene) :
        v(Reordered(scene, perm), org, dir) # hit
            => Tie(scene, org, dir, near)
C10_Strict(scene, org, dir, cands) ==
    cands # {} =>
        /\ C10_Kept(scene, org, dir, Nearest(cands))
        /\ C10_OrderOnlyInTies(scene, org, dir, Nearest(cands))
C10_StrictNearest ==
    pc = "probed" => C10_Strict(S, e, t, Candidates(S, e, t))
C10_TieOf(scene, org, dir, near) ==
    /\ Cardinality(SpheresAt(scene, org, dir, near)) >= 2
    /\ near \notin PlaneCandidate(org, dir)
    /\ hit.s = [c |-> <<scene[First(SpheresAt(scene, org, dir, near))][2],
                        scene[First(SpheresAt(scene, org, dir, near))][3],
                        scene[First(SpheresAt(scene, org, dir, near))][4]>>,
                f |-> scene[First(SpheresAt(scene, org, dir, near))][5]]
    /\ \E perm \in Orders(scene) : v(Reordered(scene, perm), org, dir) # hit
C10_Witness ==
    /\ pc = "probed" /\ hit.obj
    /\ C10_TieOf(S, e, t, hit.t)
C10_PlaneTieWitness ==
    /\ pc = "probed" /\ hit.obj /\ hit.k = 0
    /\ hit.t \in SphereCandidates(S, e, t)


\* A distance bb on the grid of `unit` steps to one exceeds 1e-4.
Exceeds(unit, bb) == bb * 10000 > unit
RootClaimed(unit, small, large) ==
    IF Exceeds(unit, small) THEN {small}
    ELSE IF Exceeds(unit, large) THEN {large}
    ELSE {}
\* C11: a sphere with positive discriminant offers its smaller root when
\* that exceeds 1e-4, otherwise (the smaller root at or below 1e-4) its
\* larger root when that exceeds 1e-4, and nothing only when neither does.
C11_RootChoice ==
    (pc = "applied" /\ probe.fn = "root") =>
        probe.out = RootClaimed(Fine, -probe.in[1] - probe.in[2],
                                -probe.in[1] + probe.in[2])
\* The smaller root is exactly 1e-4, the larger exceeds it, and the sphere
\* offers nothing.
C11_Witness ==
    /\ pc = "applied" /\ probe.fn = "root"
    /\ (-probe.in[1] - probe.in[2]) * 10000 = Fine
    /\ Exceeds(Fine, -probe.in[1] + probe.in[2])
    /\ probe.out = {}
\* Away from a smaller root of exactly 1e-4 the choice is the claimed one.
C11_RootChoiceOffBand ==
    (pc = "applied" /\ probe.fn = "root"
        /\ (-probe.in[1] - probe.in[2]) * 10000 # Fine) =>
        probe.out = RootClaimed(Fine, -probe.in[1] - probe.in[2],
                                -probe.in[1] + probe.in[2])

\* The ray is not level (|m[1]| > 1e-6) and reaches y = 0 at a distance
\* -e[1] / m[1] above 1e-4.
PlaneReached(org, dir) ==
    /\ A(dir[2]) * 1000000 > Scale
    /\ Exceeds(Scale, Quo(-org[2], dir[2]))
\* C12: the plane offers a candidate exactly when the ray is not level and
\* t = -origin.y / direction.y exceeds 1e-4; the candidate is at distance t,
\* at the ray's point of parameter t, whose y is 0 to within one step of the
\* grid; otherwise the plane offers nothing.
C12_PlaneOf(org, dir, st) ==
    IF PlaneReached(org, dir)
    THEN /\ st.k = 0
         /\ st.t = Quo(-org[2], dir[2])
         /\ st.p = u(org, c(dir, st.t))
         /\ A(st.p[2]) <= 1
    ELSE st.k = -1 /\ st.t = TFar
C12_PlaneCandidate ==
    (pc = "applied" /\ probe.fn = "plane") =>
        \A st \in probe.out : C12_PlaneOf(probe.in[1], probe.in[2], st)
C12_Witness ==
    /\ pc = "applied" /\ probe.fn = "plane"
    /\ probe.in[1][2] < 0 /\ probe.in[2][2] > 0
    /\ \E st \in probe.out : st.k = 0 /\ st.t > Scale
C12_NoneWitness ==
    /\ pc = "applied" /\ probe.fn = "plane"
    /\ probe.in[1][2] > 0 /\ probe.in[2][2] > 0
    /\ \E st \in probe.out : st.k = -1

\* How z's iteration on the ray (org, dir) ends: "miss" when `!Q` holds.
ExitOf(scene, tex, org, dir) ==
    zStep(scene, tex, [a |-> Zero3, r |-> One3, e |-> org, t |-> dir,
                       exit |-> "", Q |-> Miss]).exit
\* C13: v returns the miss value exactly when neither the plane nor any
\* sphere offers a valid candidate; a hit record has t > 1e-4, and z's test
\* `!Q` takes the miss branch for the miss value and for no hit record.
C13_MissOf(cands, exit) ==
    /\ IsMiss(hit) <=> cands = {}
    /\ hit = Miss <=> cands = {}
    /\ hit.obj => Exceeds(Scale, hit.t)
    /\ exit = "miss" <=> cands = {}
C13_MissWitness ==
    /\ pc = "probed" /\ hit = Miss /\ Len(S) > 0
    /\ ExitOf(S, P, e, t) = "miss"

\* The origin org lies inside sphere sph.
Inside(org, sph) ==
    b(R(org, <<sph[6], sph[7], sph[8]>>), R(org, <<sph[6], sph[7], sph[8]>>))
        < Mul(sph[1], sph[1])
\* A vector of unit length, to the two steps the grid's rounding allows.
UnitLength(vec) == A(Hypot(vec) - Scale) <= 2
\* C14: the normal of every hit record is of unit length and faces the
\* incident ray, dot(normal, direction) <= 0, also for plane hits from
\* below y = 0 and sphere hits from an origin inside the sphere.
C14_NormalFacesRay ==
    (pc = "probed" /\ hit.obj) => (UnitLength(hit.n) /\ b(hit.n, t) <= 0)
\* A plane hit by a ray travelling upward from below the plane: the normal
\* is (0, 1, 0) and points along the ray.
C14_Witness ==
    /\ pc = "probed" /\ hit.obj /\ hit.k = 0
    /\ e[2] < 0 /\ t[2] > 0
    /\ hit.n = <<0, Scale, 0>> /\ b(hit.n, t) > 0
\* A sphere hit at the larger root from inside: the outward normal.
C14_InsideWitness ==
    /\ pc = "probed" /\ hit.obj /\ hit.k = 1
    /\ \E idx \in 1..Len(S) : Inside(e, S[idx])
    /\ b(hit.n, t) > 0
\* From an origin above the plane and outside every sphere the normal is of
\* unit length and faces the ray.
C14_NormalFacesRayFromOutside ==
    (pc = "probed" /\ hit.obj /\ e[2] > 0
        /\ \A idx \in 1..Len(S) : ~Inside(e, S[idx]))
    => (UnitLength(hit.n) /\ b(hit.n, t) <= 0)

\* Two vectors at right angles, and three vectors pairwise at right angles
\* and of unit length, to the rounding of the grid.
Orthogonal(vec, wec) == A(b(vec, wec)) <= 3
Orthonormal(fwd, rt, up) ==
    /\ UnitLength(fwd) /\ UnitLength(rt) /\ UnitLength(up)
    /\ Orthogonal(fwd, rt) /\ Orthogonal(fwd, up) /\ Orthogonal(rt, up)
\* L - C is along the world-up axis (0, 1, 0).
Vertical(cam, look) == cam[1] = look[1] /\ cam[3] = look[3]
\* C15 as claimed: for every camera C different from the target L the
\* forward, right and up vectors are pairwise orthogonal and of unit length,
\* also when L - C is parallel to world-up.
C15_Orthonormal ==
    (pc = "applied" /\ probe.fn = "basis" /\ C # L) =>
        \A bas \in probe.out : Orthonormal(bas[1], bas[2], bas[3])
\* C15 amended: so it is when L - C is not parallel to world-up; when it is,
\* forward is of unit length and right and up are the zero vector.
C15_OrthonormalUnlessVertical ==
    (pc = "applied" /\ probe.fn = "basis" /\ C # L) =>
        \A bas \in probe.out :
            IF Vertical(C, L)
            THEN UnitLength(bas[1]) /\ bas[2] = Zero3 /\ bas[3] = Zero3
            ELSE Orthonormal(bas[1], bas[2], bas[3])
C15_Witness ==
    /\ pc = "applied" /\ probe.fn = "basis"
    /\ C # L /\ ~Vertical(C, L) /\ C[1] # L[1] /\ C[2] # L[2] /\ C[3] # L[3]
    /\ \E bas \in probe.out : Orthonormal(bas[1], bas[2], bas[3])
C15_VerticalWitness ==
    /\ pc = "applied" /\ probe.fn = "basis"
    /\ C # L /\ Vertical(C, L)
    /\ probe.out = {<<w, Zero3, Zero3>>}

\* The normal of every hit record is of unit length.
C14_UnitNormal == (pc = "probed" /\ hit.obj) => UnitLength(hit.n)

\* C16: numeric degeneracies never raise: normalize of the zero vector is
\* the zero vector, and a render whose camera C equals L, or whose forward
\* vector is parallel to world-up, does not throw, runs to completion and
\* returns a full W*H*4 buffer with every alpha byte 255.
DegenerateCall == args \in DegenerateInputs
C16_Returned ==
    (DegenerateCall /\ pc = "returned") =>
        /\ ret = {data}
        /\ DOMAIN data = Slots
        /\ \A row \in 0..(H - 1) : \A col \in 0..(W - 1) :
             data[Idx(row, col) + 3] = 255
C16_NeverRaises ==
    /\ [](g(Zero3) = Zero3)
    /\ [](DegenerateCall => pc # "thrown")
    /\ []C16_Returned
    /\ (DegenerateCall /\ Running) ~> (pc = "returned")
C16_Witness ==
    /\ DegenerateCall /\ pc = "returned" /\ W = 2 /\ H = 2
    /\ C = L /\ w = Zero3
C16_VerticalWitness ==
    /\ DegenerateCall /\ pc = "returned" /\ W = 2 /\ H = 2
    /\ w = <<0, -Scale, 0>> /\ y = Zero3 /\ G = Zero3
C16_InsideWitness ==
    /\ DegenerateCall /\ pc = "store" /\ t = Zero3 /\ ~IsMiss(hit)

\* C17: the checker predicate is periodic with period 2/scale along x:
\* texture(x, z) = texture(x + 2/scale, z) for every x and z, negative, zero
\* and positive, for the default predicate and for the --checker predicate.
TextureAsked == pc = "applied" /\ probe.fn = "texture"
SameTexture == \A pair \in probe.out : pair[1] = pair[2]
ExactPeriod == Period(probe.in[1].scale) * probe.in[1].scale = 2 * Scale
C17_Periodic == (TextureAsked /\ ExactPeriod) => SameTexture
\* The points x < 0 < x + 2/scale where scale*x is not a whole number: the
\* conversion to a 32-bit integer truncates toward zero, so the cell of
\* scale*x in (-1, 1) is two units wide.
AcrossZero ==
    /\ probe.in[2] < 0 /\ probe.in[2] + Period(probe.in[1].scale) > 0
    /\ (probe.in[1].scale * probe.in[2]) % Scale # 0
C17_Witness == TextureAsked /\ ExactPeriod /\ AcrossZero /\ ~SameTexture
\* Away from those points the predicate is periodic, and across zero it
\* never is.
C17_PeriodicOneSide ==
    (TextureAsked /\ ExactPeriod) => (SameTexture <=> ~AcrossZero)

\* C18: at every bounce every colour channel that enters the accumulation
\* is in [0, 1]: the radiance sample of a hit and the sky colour of a miss.
Sampled == pc = "applied" /\ probe.fn = "sample"
Clamped(col) == \A i \in 1..3 : col[i] >= 0 /\ col[i] <= Scale
C18_Clamped == Sampled => \A st \in probe.out : Clamped(st.a)
\* A sample brighter than 1: a ray that starts inside a sphere meets the
\* surface with dot(t, q) > 0, and the rim term 0.18 * (1 + dot(t, q)) ** 2
\* alone is up to 0.72.
Brighter(st) == \E i \in 1..3 : st.a[i] > Scale
C18_Witness ==
    /\ Sampled
    /\ \E st \in probe.out :
         st.exit \in {"break", "next"} /\ st.Q.k # 0 /\ Brighter(st)
\* The sky colour is clamped by m in each channel (lines 88-89).
C18_SkyClamped ==
    Sampled => \A st \in probe.out : st.exit = "miss" => Clamped(st.a)
C18_SkyWitness == Sampled /\ \E st \in probe.out : st.exit = "miss"

\* C19: when the nearest hit of a camera ray is a sphere whose reflectivity
\* is below 0.001, the result of z is exactly that sphere's one radiance
\* sample: nothing of the sky or the plane is added, and no reflected ray is
\* traced (one primary intersection, one shadow ray, no further iteration).
CameraHit == v(S, C, PrimaryRay(l, f))
MatteNearest ==
    /\ ~IsMiss(CameraHit) /\ CameraHit.k # 0
    /\ CameraHit.s.f < DecUp(1, 1000)
C19_MatteSample ==
    (pc = "store" /\ MatteNearest) =>
        /\ a = zRadiance(S, CameraHit, PrimaryRay(l, f), CameraHit.s.c)
        /\ hit = CameraHit
        /\ nPrim = 1 /\ nShad = 1 /\ it = 0
C19_Witness ==
    /\ pc = "store" /\ MatteNearest
    /\ a = zRadiance(S, CameraHit, PrimaryRay(l, f), CameraHit.s.c)
    /\ a # Zero3

\* C20: when --scene names a preset that is not in SCENES, the CLI reports
\* the error and exits with status 1, before makeTestImage is called and
\* before any output file is written.
Parsed == cli.at \in {"parsed", "rendering", "exited"}
Named(words) == Parsed /\ cli.opts.scene # {} /\ cli.opts.scene \subseteq words
NotAPreset ==
    Parsed /\ cli.opts.scene # {} /\ cli.opts.scene \cap DOMAIN SCENES = {}
Said(word) == \E k \in 1..Len(cli.err) : cli.err[k] = word
FailedFast ==
    /\ pc = "idle" /\ cli.files = {}
    /\ cli.at = "exited" => (cli.status = {1} /\ Said("Unknown scene"))
C20_UnknownSceneFailsFast == NotAPreset => FailedFast
\* `--scene toString --out a.png`: makeTestImage is called with a function
\* as S and throws at its first intersection.
C20_Witness ==
    /\ Named(ObjectPrototype) /\ cli.at = "exited"
    /\ pc = "thrown" /\ nPix = 1 /\ ~Said("Unknown scene")
    /\ cli.status = {1} /\ cli.files = {}
\* For a name that is neither a preset nor inherited, given --out and no
\* --list-scenes, the claim holds.
C20_OwnNameFailsFast ==
    (NotAPreset /\ ~Named(ObjectPrototype) /\ ~cli.opts.listScenes
       /\ cli.opts.out # {}) => FailedFast
C20_OwnNameWitness ==
    /\ Named({"bogus"}) /\ cli.at = "exited" /\ Said("Unknown scene")
    /\ cli.status = {1}

\* C21: when the requested width or height is <= 0 the CLI fails fast: it
\* exits with an error before makeTestImage is invoked, so the core is never
\* called with a dimension that is not positive.
Requested(opts) ==
    {Or(opts.width, Or(opts.size, 0)), Or(opts.height, Or(opts.size, 0))}
NotPositive ==
    /\ Parsed /\ ~cli.opts.threw
    /\ \E dim \in Requested(cli.opts) : dim <= 0
\* C20, continued: an unknown name writes no file when the image has a
\* pixel; an empty image never reaches the loop of line 99 that throws.
C20_NoFile == (NotAPreset /\ ~NotPositive) => cli.files = {}
C20_EmptyImageWitness ==
    NotAPreset /\ NotPositive /\ cli.files # {} /\ Named(ObjectPrototype)
C21_SizeFailsFast ==
    NotPositive =>
        /\ pc = "idle"
        /\ cli.at = "exited" => (cli.status = {1} /\ cli.err # << >>)
\* `--size -1 --out a.png`: makeTestImage(-1, -1, ...) has been called and
\* has returned its four unwritten bytes.
C21_Witness ==
    /\ NotPositive /\ cli.at = "rendering"
    /\ W = -1 /\ H = -1 /\ pc = "returned" /\ ret = {data}
\* `--size 1 --height 0`: the 0 gives way to the size, the image is 1 by 1.
C21_ZeroReplacedWitness ==
    /\ NotPositive /\ cli.opts.height = {0}
    /\ cli.at = "exited" /\ cli.status = {0} /\ H = 1 /\ cli.files # {}
\* No check of the dimensions exists: with --out and a scene that is found,
\* main always reaches the call.
C21_AlwaysCalled ==
    (NotPositive /\ cli.at = "exited" /\ cli.opts.out # {}
       /\ ~cli.opts.listScenes /\ ~SceneMissing(cli.opts)) => pc # "idle"

\* C22: the path codec round-trips: for every path string d, with a number
\* before any command too, decodePath(encodePath(d)) equals d once all
\* whitespace is removed from both.
Decoded == codec.at \in {"decoded", "verified"}
FirstToken == TOK_RE(codec.path, 1)[1]
NumberFirst == TOK_RE(codec.path, 1) # << >> /\ IsNumber(FirstToken)
C22_RoundTrip == Decoded => Unspaced(codec.dec) = Unspaced(codec.path)
\* "30": written as a fixed-point number with div 10, read back as "NaN".
C22_Witness ==
    /\ codec.at = "verified" /\ codec.warned /\ NumberFirst
    /\ Len(codec.dec) >= 3 /\ SubSeq(codec.dec, 1, 3) = <<78, 97, 78>>
\* The paths that do round-trip: every numeral is written as JavaScript
\* prints its value, no fixed-point number comes before the first command,
\* and every character belongs to a token.
Printed(tok) ==
    IsNumber(tok) =>
        NumberOf(tok).fits /\ tok = NumberString(NumberOf(tok).val, {Unit})
RECURSIVE TotalLen(_)
TotalLen(parts) ==
    IF parts = << >> THEN 0 ELSE Len(Head(parts)) + TotalLen(Tail(parts))
Plain ==
    /\ \A k \in 1..Len(TOK_RE(codec.path, 1)) :
         Printed(TOK_RE(codec.path, 1)[k])
    /\ TotalLen(TOK_RE(codec.path, 1)) = Len(codec.path)
    /\ \A k \in 1..Len(codec.decDivs) : codec.decDivs[k] # {}
C22_PlainRoundTrip ==
    (Decoded /\ Plain) => Unspaced(codec.dec) = Unspaced(codec.path)
C22_PlainWitness ==
    /\ codec.at = "verified" /\ Plain /\ ~codec.warned
    /\ codec.encDivs # << >>
\* A numeral that JavaScript prints otherwise, ".5" or "1.0", comes back
\* changed although every divisor agrees.
C22_NumeralWitness ==
    /\ codec.at = "verified" /\ codec.warned
    /\ \A k \in 1..Len(codec.decDivs) : codec.decDivs[k] # {}

C26_SameAfterCommand ==
    Decoded =>
        /\ Len(codec.decDivs) = Len(codec.encDivs)
        /\ \A k \in 1..Len(codec.decDivs) :
             codec.decDivs[k] # {} => codec.decDivs[k] = codec.encDivs[k]
        /\ decodeRun(codec.enc, StartDivTen).divs = codec.encDivs
C26_LowerWitness ==
    /\ Decoded /\ codec.encDivs # << >>
    /\ \E k \in 1..Len(codec.encDivs) :
         codec.encDivs[k] = {100} /\ codec.decDivs[k] = {100}

\* C23: when the ray of a bounce iteration hits nothing, z returns at once
\* the accumulated colour plus the throughput times the sky colour of the
\* current direction; no further intersection is made for the pixel.
MissNow == pc = "z" /\ Iterable(S) /\ IsMiss(v(S, e, t))
C23_MissReturns ==
    [][MissNow => /\ a' = u(a, o(r, j(t)))
                  /\ pc' = "store"
                  /\ r' = r /\ it' = it
                  /\ nPrim' = nPrim + 1 /\ nShad' = nShad]_vars
\* A miss in the second or third iteration, after a bounce.
C23_Witness ==
    /\ pc = "store" /\ IsMiss(hit) /\ it >= 1
    /\ r # One3 /\ a # Zero3
\* The pixel that ended on a miss made one intersection per iteration and
\* one shadow test per hit, and none after the miss.
C23_NoFurther == (pc = "store" /\ IsMiss(hit)) => (nPrim = it + 1 /\ nShad = it)
C23_FirstWitness == pc = "store" /\ IsMiss(hit) /\ it = 0 /\ nPrim = 1

\* C24: on every hit (whose texture predicate, on the plane, returns) the
\* integrator first adds throughput * radiance to the result; then it
\* stops if the reflectivity is below 0.001, and otherwise multiplies the
\* throughput by the reflectivity, moves the origin to the hit point offset
\* by 1e-4 along the normal, sets the direction to the mirror reflection of
\* the incoming direction about the normal, and goes on to the next
\* iteration.
HitNow ==
    /\ pc = "z" /\ Iterable(S) /\ ~IsMiss(v(S, e, t))
    /\ ~(v(S, e, t).k = 0 /\ P.kind = "throws")
Stops(hh) == hh < DecUp(1, 1000)
\* The incoming direction mirrored about the normal: dir - 2 (dir . nrm) nrm.
Mirror(dir, nrm) ==
    <<dir[1] - Mul(nrm[1], 2 * b(dir, nrm)),
      dir[2] - Mul(nrm[2], 2 * b(dir, nrm)),
      dir[3] - Mul(nrm[3], 2 * b(dir, nrm))>>
HitStep(Q, hh, GG) ==
    /\ a' = u(a, o(r, GG))
    /\ nShad' = nShad + 1
    /\ IF Stops(hh)
       THEN pc' = "store" /\ it' = it /\ r' = r
       ELSE /\ r' = <<Mul(r[1], hh), Mul(r[2], hh), Mul(r[3], hh)>>
            /\ e' = u(Q.p, c(Q.n, Dec(1, 10000)))
            /\ t' = g(Mirror(t, Q.n))
            /\ it' = it + 1
            /\ pc' = IF it + 1 < MaxDepth THEN "z" ELSE "store"
C24_HitStep ==
    [][HitNow => HitStep(v(S, e, t), zReflect(v(S, e, t), t),
                         zRadiance(S, v(S, e, t), t,
                                   zColour(P, v(S, e, t))))]_vars
\* A reflective hit that went on: the second iteration is about to start
\* with a dimmed throughput and a ray that leaves the surface.
C24_Witness ==
    /\ pc = "z" /\ it = 1 /\ ~IsMiss(hit) /\ hit.k # 0
    /\ r # One3 /\ a # Zero3 /\ e = hit.p /\ b(t, hit.n) > 0
C24_PlaneWitness == pc = "z" /\ it >= 1 /\ ~IsMiss(hit) /\ hit.k = 0
C24_StopWitness ==
    pc = "store" /\ ~IsMiss(hit) /\ hit.k # 0 /\ Stops(hit.s.f) /\ it = 0

\* C25: the occlusion factor of a hit is 0.18 exactly when the ray cast from
\* the hit point, offset by 1e-4 along the normal, toward the sun hits the
\* plane or a sphere at t < 20; it is 1 otherwise (a miss, or a hit at
\* t >= 20) and never 0.
SunRay(scene, Q) == v(scene, u(Q.p, c(Q.n, Dec(1, 10000))), V)
Shaded(scene, Q) ==
    ~IsMiss(SunRay(scene, Q)) /\ SunRay(scene, Q).t < 20 * Scale
Occlusion(scene, Q) == IF Shaded(scene, Q) THEN Dec(18, 100) ELSE Scale
HitSampled(st) == Sampled /\ st \in probe.out /\ st.exit \in {"break", "next"}
C25_Occlusion ==
    \A st \in (IF Sampled THEN probe.out ELSE {}) :
        HitSampled(st) =>
            /\ zShadow(probe.in[1], st.Q) = Occlusion(probe.in[1], st.Q)
            /\ zShadow(probe.in[1], st.Q) \in {Dec(18, 100), Scale}
            /\ st.a = zLit(Occlusion(probe.in[1], st.Q), st.Q, probe.in[2][2],
                           zColour(Checker(8), st.Q))
\* A plane point in the shadow of a sphere; a hit in the open; a hit whose
\* sun ray meets a sphere 20 or more away.
C25_Witness ==
    \E st \in (IF Sampled THEN probe.out ELSE {}) :
        /\ HitSampled(st) /\ st.Q.k = 0
        /\ Shaded(probe.in[1], st.Q) /\ SunRay(probe.in[1], st.Q).k > 0
C25_OpenWitness ==
    \E st \in (IF Sampled THEN probe.out ELSE {}) :
        HitSampled(st) /\ IsMiss(SunRay(probe.in[1], st.Q))
C25_FarWitness ==
    \E st \in (IF Sampled THEN probe.out ELSE {}) :
        /\ HitSampled(st) /\ ~IsMiss(SunRay(probe.in[1], st.Q))
        /\ SunRay(probe.in[1], st.Q).t >= 20 * Scale
\* The same in the loop of a running call: the colour added on a hit is the
\* sample lit by that occlusion factor.
C25_InTheLoop ==
    [][HitNow =>
         a' = u(a, o(r, zLit(Occlusion(S, v(S, e, t)), v(S, e, t), t,
                             zColour(P, v(S, e, t)))))]_vars

\* C27: when all 3 iterations of the bounce loop end in a hit on a
\* reflective surface, z returns the sum of exactly 3 throughput-weighted
\* radiance samples and no sky colour; sky colour is added only when a miss
\* occurs within the first 3 intersections.
\* The iterations of z from the primary ray of the pixel (l, f), replayed.
FromCamera ==
    [a |-> Zero3, r |-> One3, e |-> C, t |-> PrimaryRay(l, f), exit |-> "",
     Q |-> Miss]
Again(st) == zStep(S, P, [st EXCEPT !.exit = "", !.Q = Miss])
\* The throughput-weighted sample of the hit Q of the iteration from st.
Weighted(st, Q) == o(st.r, zRadiance(S, Q, st.t, zColour(P, Q)))
ThreeHits(st1, st2, st3, st4) ==
    /\ ~IsMiss(st2.Q) /\ ~IsMiss(st3.Q) /\ ~IsMiss(st4.Q)
    /\ st2.exit = "next" /\ st3.exit = "next" /\ st4.exit = "next"
    /\ a = u(u(Weighted(st1, st2.Q), Weighted(st2, st3.Q)),
             Weighted(st3, st4.Q))
ThreeFrom3(st1, st2, st3) == ThreeHits(st1, st2, st3, Again(st3))
ThreeFrom2(st1, st2) == ThreeFrom3(st1, st2, Again(st2))
ThreeFrom(st1) == ThreeFrom2(st1, Again(st1))
Exhausted == pc = "store" /\ it = MaxDepth
C27_DepthCap ==
    Exhausted =>
        /\ nPrim = MaxDepth /\ nShad = MaxDepth /\ ~IsMiss(hit)
        /\ ThreeFrom(FromCamera)
C27_Witness == Exhausted /\ a # Zero3 /\ r # One3 /\ j(t) # Zero3
\* Sky colour enters only by a miss, which is one of the first 3
\* intersections of the pixel; every other step of z adds a weighted
\* sample, and the store adds nothing.
C27_SkyOnlyOnMiss ==
    [][/\ (pc = "z" /\ pc' # "thrown") =>
            IF IsMiss(hit')
            THEN a' = u(a, o(r, j(t))) /\ nPrim' <= MaxDepth
            ELSE a' = u(a, Weighted([r |-> r, t |-> t], hit'))
       /\ pc = "store" => a' = a]_vars
C27_MissWitness == pc = "store" /\ IsMiss(hit) /\ nPrim = MaxDepth

\* C28: a hit on the ground plane (whose texture predicate returns) never
\* ends the bounce loop early: the plane's reflectivity
\* 0.1 + 0.38 * clamp(1 - |direction.y|) is in [0.1, 0.48], above the
\* threshold 0.001, so the integrator goes on with the reflected ray unless
\* the depth cap is reached.
PlaneHitNow == HitNow /\ v(S, e, t).k = 0
InPlaneRange(hh) == hh >= Dec(1, 10) /\ hh <= Dec(48, 100)
C28_PlaneContinues ==
    [][PlaneHitNow =>
         /\ InPlaneRange(zReflect(v(S, e, t), t))
         /\ ~Stops(zReflect(v(S, e, t), t))
         /\ it' = it + 1
         /\ t' = g(Mirror(t, <<0, Scale, 0>>))
         /\ pc' = IF it + 1 < MaxDepth THEN "z" ELSE "store"]_vars
\* A plane hit in the second iteration after which the third starts, and a
\* plane hit in the third, where the depth cap ends the loop.
C28_Witness ==
    /\ pc = "z" /\ it = 2 /\ ~IsMiss(hit) /\ hit.k = 0
    /\ hit.n = <<0, Scale, 0>> /\ t[2] > 0
C28_CapWitness == pc = "store" /\ it = MaxDepth /\ ~IsMiss(hit) /\ hit.k = 0
\* One iteration alone, on rays from straight down to nearly level.
C28_Range ==
    \A st \in (IF Sampled THEN probe.out ELSE {}) :
        (HitSampled(st) /\ st.Q.k = 0) =>
            /\ st.exit = "next"
            /\ \E hh \in Dec(1, 10)..Dec(48, 100) : st.r = <<hh, hh, hh>>
C28_SteepWitness ==
    \E st \in (IF Sampled THEN probe.out ELSE {}) :
        /\ HitSampled(st) /\ st.Q.k = 0
        /\ st.r = <<Dec(1, 10), Dec(1, 10), Dec(1, 10)>>
C28_LevelWitness ==
    \E st \in (IF Sampled THEN probe.out ELSE {}) :
        HitSampled(st) /\ st.Q.k = 0 /\ st.r[1] >= Dec(35, 100)

\* C29: for scenes whose sphere reflectivities are in [0, 1] the throughput
\* starts at (1, 1, 1), every channel stays in [0, 1], and it never
\* increases from one bounce to the next.
InUnitRange(scene) ==
    Iterable(scene) /\ \A sph \in 1..Len(scene) :
                           scene[sph][5] >= 0 /\ scene[sph][5] <= Scale
C29_Throughput ==
    [][InUnitRange(S) =>
         /\ (pc = "col" /\ pc' = "z") => r' = One3
         /\ pc = "z" => \A i \in 1..3 :
                            r'[i] >= 0 /\ r'[i] <= r[i] /\ r[i] <= Scale]_vars
\* After two bounces, off a sphere and off the plane, the throughput is
\* below either reflectivity and above 0.
C29_Witness ==
    /\ pc = "z" /\ it = 2 /\ InUnitRange(S) /\ S # << >>
    /\ \A i \in 1..3 : r[i] > 0 /\ r[i] < Dec(30, 100)
\* The range alone, in every state of a running z.
C29_InRange ==
    (pc \in {"z", "store"} /\ InUnitRange(S)) =>
        \A i \in 1..3 : r[i] >= 0 /\ r[i] <= Scale

\* C30: every hit record is consistent with the winning candidate: point,
\* normal, kind and surface all come from the candidate that supplied t.  A
\* plane hit (kind 0) has the normal (0, 1, 0) and its point on y = 0, to
\* the rounding of the grid; a sphere hit (kind 1) has the colour and
\* reflectivity of the sphere whose root is t, whatever candidates were
\* examined before or after it.
OnPlane(pt) == A(pt[2]) <= 2
FromSphere(rec, sph, org, dir) ==
    /\ SphereCandidate(sph, org, dir) = {rec.t}
    /\ rec.p = u(org, c(dir, rec.t))
    /\ rec.n = g(R(rec.p, <<sph[6], sph[7], sph[8]>>))
    /\ rec.s.c = <<sph[2], sph[3], sph[4]>>
    /\ rec.s.f = sph[5]
FromPlane(rec, org, dir) ==
    /\ rec.t \in PlaneCandidate(org, dir)
    /\ rec.p = u(org, c(dir, rec.t))
    /\ OnPlane(rec.p)
    /\ rec.n = <<0, Scale, 0>>
C30_Consistent ==
    (pc = "probed" /\ hit.obj) =>
        IF hit.k = 0 THEN FromPlane(hit, e, t)
        ELSE /\ hit.k = 1
             /\ \E idx \in 1..Len(S) : FromSphere(hit, S[idx], e, t)
\* A sphere wins after the plane was taken first and a nearer-listed sphere
\* offered a farther root, and a farther sphere is examined after it.
C30_Witness ==
    /\ pc = "probed" /\ hit.obj /\ hit.k = 1
    /\ \E cand \in PlaneCandidate(e, t) : cand > hit.t
    /\ \E idx \in 2..Len(S) :
         /\ FromSphere(hit, S[idx], e, t)
         /\ \E cand \in SphereCandidate(S[idx - 1], e, t) : cand > hit.t
C30_AfterWitness ==
    /\ pc = "probed" /\ hit.obj /\ hit.k = 1
    /\ \E idx \in 1..(Len(S) - 1) :
         /\ FromSphere(hit, S[idx], e, t)
         /\ \E cand \in SphereCandidate(S[idx + 1], e, t) : cand > hit.t
C30_PlaneWitness ==
    /\ pc = "probed" /\ hit.obj /\ hit.k = 0
    /\ SphereCandidates(S, e, t) # {} /\ hit.p # <<0, 0, 0>>

=============================================================================
